---- MODULE Spec2Model ----
(***************************************************************************)
(* A model of the TSON parser (src/src/tson.ts).                           *)
(*                                                                         *)
(* Text is a sequence of one-character strings, so that the line scanner   *)
(* and the regular expressions of the source act on characters exactly as  *)
(* they do in the program.  A file system maps absolute paths to files.    *)
(* parseTSON / parseTSONString are synchronous and recursive: each is an   *)
(* operator that yields an outcome (a returned value or a thrown error)    *)
(* together with the lines written to the diagnostic channel.              *)
(***************************************************************************)
EXTENDS Integers, Sequences, FiniteSets, TLC

VARIABLES
    fs,           \* the file system: absolute path -> file or directory
    call,         \* the call of an entry point that is under way
    outcome,      \* what that call returned or threw, and what it logged
    frames,       \* the parseTSON calls that are pending, innermost last
    isCompiling,  \* the guard variable of watchTSONFile
    pc,           \* where the watcher's compile callback stands
    watching,     \* fs.watchFile has registered the callback
    pending,      \* the watched file changed and the callback was not yet invoked
    console,      \* the lines the watcher wrote, in order
    attempts      \* the number of compile attempts begun

\* the state of one watchTSONFile call
watchVars == <<isCompiling, pc, watching, pending, console, attempts>>

vars == <<fs, call, outcome, frames, isCompiling, pc, watching, pending, console, attempts>>

\* no import resolution is pending and no watcher is installed
Quiet ==
    /\ frames = <<>>
    /\ isCompiling = FALSE
    /\ pc = "idle"
    /\ watching = FALSE
    /\ pending = FALSE
    /\ console = <<>>
    /\ attempts = 0

(***************************************************************************)
(* Characters                                                              *)
(***************************************************************************)
Digits == <<"0", "1", "2", "3", "4", "5", "6", "7", "8", "9">>

DigitSet == {Digits[i] : i \in 1..Len(Digits)}

Letters ==
    {"a", "b", "c", "d", "e", "f", "g", "h", "i", "j", "k", "l", "m",
     "n", "o", "p", "q", "r", "s", "t", "u", "v", "w", "x", "y", "z",
     "A", "B", "C", "D", "E", "F", "G", "H", "I", "J", "K", "L", "M",
     "N", "O", "P", "Q", "R", "S", "T", "U", "V", "W", "X", "Y", "Z"}

\* \w of a JavaScript regular expression
WordChars == Letters \cup DigitSet \cup {"_"}

\* \s of a JavaScript regular expression and the characters trim() and
\* trimEnd() remove (restricted to the characters of the model's alphabet)
WhiteSpace == {" ", "\t", "\n", "\r", "\f"}

IsWord(c) == c \in WordChars

IsSpace(c) == c \in WhiteSpace

(***************************************************************************)
(* String primitives of the host language                                  *)
(***************************************************************************)
\* s.startsWith(p)
StartsWith(s, p) == Len(s) >= Len(p) /\ SubSeq(s, 1, Len(p)) = p

\* s.endsWith(p)
EndsWith(s, p) == Len(s) >= Len(p) /\ SubSeq(s, Len(s) - Len(p) + 1, Len(s)) = p

\* the suffix of s that starts at index i
From(s, i) == SubSeq(s, i, Len(s))

\* s contains p as a contiguous substring
Contains(s, p) == \E i \in 1..(Len(s) - Len(p) + 1) : SubSeq(s, i, i + Len(p) - 1) = p

RECURSIVE TrimStart(_)
TrimStart(s) == IF s # <<>> /\ IsSpace(Head(s)) THEN TrimStart(Tail(s)) ELSE s

\* faulty variant: a single trailing white-space character is removed
TrimEndOnce(s) ==
    IF s # <<>> /\ IsSpace(s[Len(s)]) THEN SubSeq(s, 1, Len(s) - 1) ELSE s

RECURSIVE TrimEnd(_)
TrimEnd(s) ==
    IF s # <<>> /\ IsSpace(s[Len(s)]) THEN TrimEnd(SubSeq(s, 1, Len(s) - 1)) ELSE s

Trim(s) == TrimEnd(TrimStart(s))

\* index of the first sep in s at or after i, 0 if there is none
RECURSIVE IndexOf(_, _, _)
IndexOf(s, sep, i) ==
    IF i > Len(s) THEN 0
    ELSE IF s[i] = sep THEN i
    ELSE IndexOf(s, sep, i + 1)

\* text.split(sep): always at least one piece
RECURSIVE Split(_, _)
Split(s, sep) ==
    LET k == IndexOf(s, sep, 1)
    IN  IF k = 0 THEN <<s>>
        ELSE <<SubSeq(s, 1, k - 1)>> \o Split(From(s, k + 1), sep)

\* lines.join(sep)
RECURSIVE Join(_, _)
Join(ls, sep) ==
    IF ls = <<>> THEN <<>>
    ELSE IF Len(ls) = 1 THEN ls[1]
    ELSE ls[1] \o <<sep>> \o Join(Tail(ls), sep)

\* the end (exclusive) of the maximal run of characters of class S starting at i
RECURSIVE RunEnd(_, _, _)
RunEnd(s, i, S) == IF i <= Len(s) /\ s[i] \in S THEN RunEnd(s, i + 1, S) ELSE i

(***************************************************************************)
(* Decoded values: null / boolean / number / string / object / array.      *)
(* Every value carries the same fields, so any two values are comparable.  *)
(***************************************************************************)
NullV == [t |-> "null", n |-> 0, s |-> <<>>, keys |-> <<>>, kids |-> <<>>]

BoolV(b) == [t |-> "bool", n |-> IF b THEN 1 ELSE 0, s |-> <<>>, keys |-> <<>>, kids |-> <<>>]

NumV(n) == [t |-> "num", n |-> n, s |-> <<>>, keys |-> <<>>, kids |-> <<>>]

StrV(s) == [t |-> "str", n |-> 0, s |-> s, keys |-> <<>>, kids |-> <<>>]

ArrV(kids) == [t |-> "arr", n |-> 0, s |-> <<>>, keys |-> <<>>, kids |-> kids]

ObjV(keys, kids) == [t |-> "obj", n |-> 0, s |-> <<>>, keys |-> keys, kids |-> kids]

\* obj[key] = v: an existing property keeps its position, a new one is appended
SetProp(o, key, v) ==
    IF \E i \in 1..Len(o.keys) : o.keys[i] = key
    THEN LET i == CHOOSE j \in 1..Len(o.keys) : o.keys[j] = key
         IN  ObjV(o.keys, [o.kids EXCEPT ![i] = v])
    ELSE ObjV(Append(o.keys, key), Append(o.kids, v))

HasProp(o, key) == \E i \in 1..Len(o.keys) : o.keys[i] = key

GetProp(o, key) == o.kids[CHOOSE j \in 1..Len(o.keys) : o.keys[j] = key]

(***************************************************************************)
(* JSON.parse and JSON.stringify of the host (called at tson.ts:139, 214,  *)
(* 259, 271).  The decoder is a recursive-descent reading of the JSON      *)
(* grammar over the model's alphabet: numbers are integers (no fraction or *)
(* exponent part) and the escapes are \" \\ \/ \n \t \r \f.                *)
(***************************************************************************)
\* the character at index i, "" past the end of the text
At(t, i) == IF i >= 1 /\ i <= Len(t) THEN t[i] ELSE ""

DigitVal(c) == (CHOOSE i \in 1..Len(Digits) : Digits[i] = c) - 1

RECURSIVE DigitsToNat(_)
DigitsToNat(ds) ==
    IF ds = <<>> THEN 0
    ELSE DigitsToNat(SubSeq(ds, 1, Len(ds) - 1)) * 10 + DigitVal(ds[Len(ds)])

RECURSIVE NatToDigits(_)
NatToDigits(n) ==
    IF n < 10 THEN <<Digits[n + 1]>>
    ELSE NatToDigits(n \div 10) \o <<Digits[(n % 10) + 1]>>

JsonEscapes == {"\"", "\\", "/", "n", "t", "r", "f"}

Unescape(c) ==
    CASE c = "n" -> "\n"
      [] c = "t" -> "\t"
      [] c = "r" -> "\r"
      [] c = "f" -> "\f"
      [] OTHER -> c

\* control characters may not appear raw inside a JSON string
ControlChars == {"\n", "\t", "\r", "\f"}

\* the white space of the JSON grammar: form feed is not part of it
JsonWhiteSpace == {" ", "\t", "\n", "\r"}

ParseFail == [ok |-> FALSE, val |-> NullV, pos |-> 0]

ParseOk(v, p) == [ok |-> TRUE, val |-> v, pos |-> p]

\* \s* of a regular expression starting at index i
SkipWs(t, i) == RunEnd(t, i, WhiteSpace)

SkipJsonWs(t, i) == RunEnd(t, i, JsonWhiteSpace)

\* the body of a string literal whose opening quote is at index i - 1
RECURSIVE ScanString(_, _, _)
ScanString(t, i, acc) ==
    IF i > Len(t) THEN ParseFail
    ELSE IF t[i] = "\"" THEN ParseOk(StrV(acc), i + 1)
    ELSE IF t[i] = "\\"
         THEN IF At(t, i + 1) \in JsonEscapes
              THEN ScanString(t, i + 2, Append(acc, Unescape(t[i + 1])))
              ELSE ParseFail
    ELSE IF t[i] \in ControlChars THEN ParseFail
    ELSE ScanString(t, i + 1, Append(acc, t[i]))

ParseNumber(t, i) ==
    LET neg == At(t, i) = "-"
        j == IF neg THEN i + 1 ELSE i
    IN  IF At(t, j) \notin DigitSet THEN ParseFail
        ELSE LET e == IF t[j] = "0" THEN j + 1 ELSE RunEnd(t, j, DigitSet)
                 n == DigitsToNat(SubSeq(t, j, e - 1))
             IN  ParseOk(NumV(IF neg THEN 0 - n ELSE n), e)

LitTrue == <<"t", "r", "u", "e">>

LitFalse == <<"f", "a", "l", "s", "e">>

LitNull == <<"n", "u", "l", "l">>

RECURSIVE ParseValue(_, _)
RECURSIVE ParseMembers(_, _, _)
RECURSIVE ParseElements(_, _, _)

\* the value that starts at index i (white space already skipped)
ParseValue(t, i) ==
    LET c == At(t, i)
    IN  IF c = "{"
        THEN LET j == SkipJsonWs(t, i + 1)
             IN  IF At(t, j) = "}" THEN ParseOk(ObjV(<<>>, <<>>), j + 1)
                 ELSE ParseMembers(t, j, ObjV(<<>>, <<>>))
        ELSE IF c = "["
        THEN LET j == SkipJsonWs(t, i + 1)
             IN  IF At(t, j) = "]" THEN ParseOk(ArrV(<<>>), j + 1)
                 ELSE ParseElements(t, j, <<>>)
        ELSE IF c = "\"" THEN ScanString(t, i + 1, <<>>)
        ELSE IF c = "-" \/ c \in DigitSet THEN ParseNumber(t, i)
        ELSE IF StartsWith(From(t, i), LitTrue) THEN ParseOk(BoolV(TRUE), i + Len(LitTrue))
        ELSE IF StartsWith(From(t, i), LitFalse) THEN ParseOk(BoolV(FALSE), i + Len(LitFalse))
        ELSE IF StartsWith(From(t, i), LitNull) THEN ParseOk(NullV, i + Len(LitNull))
        ELSE ParseFail

\* "key" : value ( , "key" : value )* }   starting at index i
ParseMembers(t, i, o) ==
    IF At(t, i) # "\"" THEN ParseFail
    ELSE LET k == ScanString(t, i + 1, <<>>)
         IN  IF ~k.ok THEN ParseFail
             ELSE LET c == SkipJsonWs(t, k.pos)
                  IN  IF At(t, c) # ":" THEN ParseFail
                      ELSE LET v == ParseValue(t, SkipJsonWs(t, c + 1))
                           IN  IF ~v.ok THEN ParseFail
                               ELSE LET e == SkipJsonWs(t, v.pos)
                                        o2 == SetProp(o, k.val.s, v.val)
                                    IN  IF At(t, e) = "}" THEN ParseOk(o2, e + 1)
                                        ELSE IF At(t, e) = ","
                                        THEN ParseMembers(t, SkipJsonWs(t, e + 1), o2)
                                        ELSE ParseFail

\* value ( , value )* ]   starting at index i
ParseElements(t, i, kids) ==
    LET v == ParseValue(t, i)
    IN  IF ~v.ok THEN ParseFail
        ELSE LET e == SkipJsonWs(t, v.pos)
                 k2 == Append(kids, v.val)
             IN  IF At(t, e) = "]" THEN ParseOk(ArrV(k2), e + 1)
                 ELSE IF At(t, e) = "," THEN ParseElements(t, SkipJsonWs(t, e + 1), k2)
                 ELSE ParseFail

\* JSON.parse(t): ok = FALSE stands for the SyntaxError it throws
JSONparse(t) ==
    LET r == ParseValue(t, SkipJsonWs(t, 1))
    IN  IF r.ok /\ SkipJsonWs(t, r.pos) = Len(t) + 1 THEN r ELSE ParseFail

\* faulty variant: the characters of the string are written as they are
EscapeStringRaw(s) == s

RECURSIVE EscapeString(_)
EscapeString(s) ==
    IF s = <<>> THEN <<>>
    ELSE LET c == Head(s)
             e == CASE c = "\"" -> <<"\\", "\"">>
                    [] c = "\\" -> <<"\\", "\\">>
                    [] c = "\n" -> <<"\\", "n">>
                    [] c = "\t" -> <<"\\", "t">>
                    [] c = "\r" -> <<"\\", "r">>
                    [] c = "\f" -> <<"\\", "f">>
                    [] OTHER -> <<c>>
         IN  e \o EscapeString(Tail(s))

QuoteString(s) == <<"\"">> \o EscapeString(s) \o <<"\"">>

RECURSIVE JSONstringify(_)
RECURSIVE StringifyMembers(_, _)
RECURSIVE StringifyElements(_, _)

\* JSON.stringify(v) without an indent argument
JSONstringify(v) ==
    CASE v.t = "null" -> LitNull
      [] v.t = "bool" -> IF v.n = 1 THEN LitTrue ELSE LitFalse
      [] v.t = "num" -> IF v.n < 0 THEN <<"-">> \o NatToDigits(0 - v.n) ELSE NatToDigits(v.n)
      [] v.t = "str" -> QuoteString(v.s)
      [] v.t = "arr" -> <<"[">> \o StringifyElements(v, 1) \o <<"]">>
      [] v.t = "obj" -> <<"{">> \o StringifyMembers(v, 1) \o <<"}">>

StringifyMembers(v, i) ==
    IF i > Len(v.keys) THEN <<>>
    ELSE (IF i > 1 THEN <<",">> ELSE <<>>)
         \o QuoteString(v.keys[i]) \o <<":">> \o JSONstringify(v.kids[i])
         \o StringifyMembers(v, i + 1)

StringifyElements(v, i) ==
    IF i > Len(v.kids) THEN <<>>
    ELSE (IF i > 1 THEN <<",">> ELSE <<>>)
         \o JSONstringify(v.kids[i]) \o StringifyElements(v, i + 1)

(***************************************************************************)
(* The line-oriented passes of parseTSONString                             *)
(***************************************************************************)
Quotes == {"\"", "'"}

\* removeImports, tson.ts:226-240
KwImportSp == <<"i", "m", "p", "o", "r", "t", " ">>

RECURSIVE RemoveImportLines(_)
RemoveImportLines(lines) ==
    IF lines = <<>> THEN <<>>
    ELSE <<IF StartsWith(Trim(Head(lines)), KwImportSp) THEN <<>> ELSE Head(lines)>>
         \o RemoveImportLines(Tail(lines))

removeImports(text) == Join(RemoveImportLines(Split(text, "\n")), "\n")

\* faulty variant: the backslashes before a quote are not counted
EscapeCountNone(line, j) == 0

\* the number of consecutive backslashes that end at index j (tson.ts:311-316)
RECURSIVE EscapeCount(_, _)
EscapeCount(line, j) ==
    IF j >= 1 /\ line[j] = "\\" THEN 1 + EscapeCount(line, j - 1) ELSE 0

\* faulty variant: either quote character closes the open string
RECURSIVE ScanLineAnyQuote(_, _, _, _, _)
ScanLineAnyQuote(line, i, inString, stringChar, newLine) ==
    IF i > Len(line) THEN newLine
    ELSE LET char == line[i]
             nextChar == At(line, i + 1)
         IN  IF ~inString /\ char \in Quotes
             THEN ScanLineAnyQuote(line, i + 1, TRUE, char, Append(newLine, char))
             ELSE IF inString /\ char \in Quotes
             THEN IF EscapeCount(line, i - 1) % 2 = 0
                  THEN ScanLineAnyQuote(line, i + 1, FALSE, "", Append(newLine, char))
                  ELSE ScanLineAnyQuote(line, i + 1, inString, stringChar,
                                        Append(newLine, char))
             ELSE IF ~inString /\ char = "/" /\ nextChar = "/"
             THEN newLine
             ELSE ScanLineAnyQuote(line, i + 1, inString, stringChar, Append(newLine, char))

\* the while loop of removeComments over one line (tson.ts:300-332)
RECURSIVE ScanLine(_, _, _, _, _)
ScanLine(line, i, inString, stringChar, newLine) ==
    IF i > Len(line) THEN newLine
    ELSE LET char == line[i]
             nextChar == At(line, i + 1)
         IN  IF ~inString /\ char \in Quotes
             THEN ScanLine(line, i + 1, TRUE, char, Append(newLine, char))
             ELSE IF inString /\ char = stringChar
             THEN IF EscapeCount(line, i - 1) % 2 = 0
                  THEN ScanLine(line, i + 1, FALSE, "", Append(newLine, char))
                  ELSE ScanLine(line, i + 1, inString, stringChar, Append(newLine, char))
             ELSE IF ~inString /\ char = "/" /\ nextChar = "/"
             THEN newLine
             ELSE ScanLine(line, i + 1, inString, stringChar, Append(newLine, char))

\* faulty variant: the white space at the end of the line is kept
StripLineKeepEnd(line) ==
    IF line = <<>> THEN <<>> ELSE ScanLine(line, 1, FALSE, "", <<>>)

StripLine(line) ==
    IF line = <<>> THEN <<>> ELSE TrimEnd(ScanLine(line, 1, FALSE, "", <<>>))

RECURSIVE StripLines(_)
StripLines(lines) ==
    IF lines = <<>> THEN <<>>
    ELSE <<StripLine(Head(lines))>> \o StripLines(Tail(lines))

\* removeComments, tson.ts:284-338
removeComments(text) == Join(StripLines(Split(text, "\n")), "\n")

(***************************************************************************)
(* Whole-word substitution: line.replace(new RegExp(`\\b${name}\\b`, 'g'), *)
(* JSON.stringify(value))   (tson.ts:213-214 and 270-271)                  *)
(***************************************************************************)
\* does \bname\b match at index i of line
WordAt(line, name, i) ==
    /\ i + Len(name) - 1 <= Len(line)
    /\ SubSeq(line, i, i + Len(name) - 1) = name
    /\ ~IsWord(At(line, i - 1))
    /\ ~IsWord(At(line, i + Len(name)))

\* the replacement string of String.prototype.replace: $$ $& $` $' are
\* patterns (the expression has no capture group, so $1 is literal text)
RECURSIVE ExpandReplacement(_, _, _, _)
ExpandReplacement(repl, line, i, n) ==
    IF repl = <<>> THEN <<>>
    ELSE IF Head(repl) = "$" /\ Len(repl) >= 2 /\ repl[2] \in {"$", "&", "`", "'"}
    THEN (CASE repl[2] = "$" -> <<"$">>
            [] repl[2] = "&" -> SubSeq(line, i, i + n - 1)
            [] repl[2] = "`" -> SubSeq(line, 1, i - 1)
            [] repl[2] = "'" -> From(line, i + n))
         \o ExpandReplacement(From(repl, 3), line, i, n)
    ELSE <<Head(repl)>> \o ExpandReplacement(Tail(repl), line, i, n)

RECURSIVE ReplaceWordFrom(_, _, _, _)
ReplaceWordFrom(line, name, repl, i) ==
    IF i > Len(line) THEN <<>>
    ELSE IF WordAt(line, name, i)
    THEN ExpandReplacement(repl, line, i, Len(name))
         \o ReplaceWordFrom(line, name, repl, i + Len(name))
    ELSE <<line[i]>> \o ReplaceWordFrom(line, name, repl, i + 1)

ReplaceWord(line, name, repl) == ReplaceWordFrom(line, name, repl, 1)

(***************************************************************************)
(* Binding tables: constants / importedData, objects used as maps.         *)
(* A table is the sequence of its entries in Object.entries order.         *)
(***************************************************************************)
\* faulty variant: a name that is bound keeps its first value
BindKeepFirst(tbl, name, value) ==
    IF \E i \in 1..Len(tbl) : tbl[i].name = name THEN tbl
    ELSE Append(tbl, [name |-> name, value |-> value])

\* tbl[name] = value: a name that is bound keeps its place in the order
Bind(tbl, name, value) ==
    IF \E i \in 1..Len(tbl) : tbl[i].name = name
    THEN LET i == CHOOSE j \in 1..Len(tbl) : tbl[j].name = name
         IN  [tbl EXCEPT ![i] = [name |-> name, value |-> value]]
    ELSE Append(tbl, [name |-> name, value |-> value])

\* for (const [name, value] of Object.entries(tbl)) line = line.replace(...)
RECURSIVE SubstituteAll(_, _, _)
SubstituteAll(line, tbl, i) ==
    IF i > Len(tbl) THEN line
    ELSE SubstituteAll(ReplaceWord(line, tbl[i].name, JSONstringify(tbl[i].value)), tbl, i + 1)

(***************************************************************************)
(* processConstDeclarations, tson.ts:245-278                               *)
(***************************************************************************)
KwConst == <<"c", "o", "n", "s", "t">>

NoMatch == [ok |-> FALSE, name |-> <<>>, value |-> <<>>]

\* trimmed.match(/^const\s+(\w+)\s*=\s*(.+);?$/): (.+) is greedy, so the
\* value group runs to the end of the line and takes a final ';' with it
MatchConst(trimmed) ==
    IF ~StartsWith(trimmed, KwConst) THEN NoMatch
    ELSE LET a == Len(KwConst) + 1
             b == SkipWs(trimmed, a)
             c == RunEnd(trimmed, b, WordChars)
             d == SkipWs(trimmed, c)
             e == SkipWs(trimmed, d + 1)
         IN  IF /\ b > a
                /\ c > b
                /\ At(trimmed, d) = "="
                /\ e <= Len(trimmed)
                /\ \A k \in e..Len(trimmed) : trimmed[k] \notin {"\n", "\r"}
             THEN [ok |-> TRUE, name |-> SubSeq(trimmed, b, c - 1), value |-> From(trimmed, e)]
             ELSE NoMatch

\* s.replace(/x/g, y) for single characters
RECURSIVE ReplaceChars(_, _, _)
ReplaceChars(s, S, y) ==
    IF s = <<>> THEN <<>>
    ELSE (IF Head(s) \in S THEN y ELSE <<Head(s)>>) \o ReplaceChars(Tail(s), S, y)

\* the value bound by a declaration (tson.ts:257-264)
ConstValue(value) ==
    LET parsed == JSONparse(ReplaceChars(value, {"'"}, <<"\"">>))
    IN  IF parsed.ok THEN parsed.val
        ELSE StrV(ReplaceChars(value, {"'", "\"", ";"}, <<>>))

RECURSIVE ConstLoop(_, _, _, _)
ConstLoop(lines, i, result, constants) ==
    IF i > Len(lines) THEN result
    ELSE LET line == lines[i]
             constMatch == MatchConst(Trim(line))
         IN  IF constMatch.ok
             THEN ConstLoop(lines, i + 1, Append(result, <<>>),
                            Bind(constants, constMatch.name, ConstValue(constMatch.value)))
             ELSE ConstLoop(lines, i + 1,
                            Append(result, SubstituteAll(line, constants, 1)), constants)

\* faulty variant: declarations are collected in a first pass, so that a constant is
\* visible on every line of the document
RECURSIVE CollectConstants(_, _, _)
CollectConstants(lines, i, constants) ==
    IF i > Len(lines) THEN constants
    ELSE LET constMatch == MatchConst(Trim(lines[i]))
         IN  CollectConstants(lines, i + 1,
                              IF constMatch.ok
                              THEN Bind(constants, constMatch.name, ConstValue(constMatch.value))
                              ELSE constants)

processConstDeclarationsHoisted(text) ==
    Join(ConstLoop(Split(text, "\n"), 1, <<>>, CollectConstants(Split(text, "\n"), 1, <<>>)),
         "\n")

\* faulty variant: the table of constants outlives the invocation, so that B, which
\* declb.tson declares, is bound in every document parsed after it
processConstDeclarationsSharedTable(text) ==
    Join(ConstLoop(Split(text, "\n"), 1, <<>>, Bind(<<>>, <<"B">>, NumV(2))), "\n")

processConstDeclarations(text) ==
    Join(ConstLoop(Split(text, "\n"), 1, <<>>, <<>>), "\n")

(***************************************************************************)
(* Syntax normalisation, tson.ts:130-136                                   *)
(***************************************************************************)
\* faulty variant: bare keys are left as they are
QuoteKeysNone(t) == t

\* cleaned.replace(/(\w+)\s*:/g, '"$1":')
RECURSIVE QuoteKeysFrom(_, _)
QuoteKeysFrom(t, i) ==
    IF i > Len(t) THEN <<>>
    ELSE IF IsWord(t[i])
    THEN LET w == RunEnd(t, i, WordChars)
             c == SkipWs(t, w)
         IN  IF At(t, c) = ":"
             THEN <<"\"">> \o SubSeq(t, i, w - 1) \o <<"\"", ":">> \o QuoteKeysFrom(t, c + 1)
             ELSE SubSeq(t, i, w - 1) \o QuoteKeysFrom(t, w)
    ELSE <<t[i]>> \o QuoteKeysFrom(t, i + 1)

\* faulty variant: key quoting that skips string literals
RECURSIVE QuoteKeysAware(_, _, _)
QuoteKeysAware(t, i, q) ==
    IF i > Len(t) THEN <<>>
    ELSE IF q # ""
    THEN IF t[i] = "\\" /\ i < Len(t)
         THEN <<t[i], t[i + 1]>> \o QuoteKeysAware(t, i + 2, q)
         ELSE <<t[i]>> \o QuoteKeysAware(t, i + 1, IF t[i] = q THEN "" ELSE q)
    ELSE IF t[i] \in Quotes THEN <<t[i]>> \o QuoteKeysAware(t, i + 1, t[i])
    ELSE IF IsWord(t[i])
    THEN LET w == RunEnd(t, i, WordChars)
             c == SkipWs(t, w)
         IN  IF At(t, c) = ":"
             THEN <<"\"">> \o SubSeq(t, i, w - 1) \o <<"\"", ":">>
                  \o QuoteKeysAware(t, c + 1, q)
             ELSE SubSeq(t, i, w - 1) \o QuoteKeysAware(t, w, q)
    ELSE <<t[i]>> \o QuoteKeysAware(t, i + 1, q)

QuoteKeysOutsideStrings(t) == QuoteKeysAware(t, 1, "")

QuoteKeys(t) == QuoteKeysFrom(t, 1)

\* faulty variant: trailing commas are left in the text
RemoveTrailingCommasKeep(t) == t

\* cleaned.replace(/,(\s*[}\]])/g, "$1")
RECURSIVE RemoveTrailingCommasFrom(_, _)
RemoveTrailingCommasFrom(t, i) ==
    IF i > Len(t) THEN <<>>
    ELSE IF t[i] = "," /\ At(t, SkipWs(t, i + 1)) \in {"}", "]"}
    THEN LET c == SkipWs(t, i + 1)
         IN  SubSeq(t, i + 1, c) \o RemoveTrailingCommasFrom(t, c + 1)
    ELSE <<t[i]>> \o RemoveTrailingCommasFrom(t, i + 1)

RemoveTrailingCommas(t) == RemoveTrailingCommasFrom(t, 1)

(***************************************************************************)
(* Paths and the file system (path.isAbsolute, path.resolve, path.dirname, *)
(* fs.existsSync, fs.readFileSync)                                         *)
(***************************************************************************)
\* process.cwd()
Cwd == <<"/", "w">>

IsAbsolute(p) == p # <<>> /\ Head(p) = "/"

RECURSIVE NormSegs(_, _)
NormSegs(segs, stack) ==
    IF segs = <<>> THEN stack
    ELSE LET h == Head(segs)
         IN  IF h = <<>> \/ h = <<".">> THEN NormSegs(Tail(segs), stack)
             ELSE IF h = <<".", ".">>
             THEN NormSegs(Tail(segs),
                           IF stack = <<>> THEN <<>> ELSE SubSeq(stack, 1, Len(stack) - 1))
             ELSE NormSegs(Tail(segs), Append(stack, h))

NormalizeAbs(p) == <<"/">> \o Join(NormSegs(Split(p, "/"), <<>>), "/")

\* faulty variant: a relative path is resolved against the working directory, not base
PathResolveIgnoresBase(base, p) ==
    IF IsAbsolute(p) THEN NormalizeAbs(p)
    ELSE NormalizeAbs(Cwd \o <<"/">> \o p)

\* path.resolve(base, p)
PathResolve(base, p) ==
    IF IsAbsolute(p) THEN NormalizeAbs(p)
    ELSE IF IsAbsolute(base) THEN NormalizeAbs(base \o <<"/">> \o p)
    ELSE NormalizeAbs(Cwd \o <<"/">> \o base \o <<"/">> \o p)

RECURSIVE LastIndexOf(_, _, _)
LastIndexOf(s, c, i) ==
    IF i < 1 THEN 0 ELSE IF s[i] = c THEN i ELSE LastIndexOf(s, c, i - 1)

\* path.dirname(p), for a path that does not end in a separator
Dirname(p) ==
    LET k == LastIndexOf(p, "/", Len(p))
    IN  IF k = 0 THEN <<".">>
        ELSE IF k = 1 THEN <<"/">>
        ELSE SubSeq(p, 1, k - 1)

\* the file system sees a path relative to the working directory
FsKey(p) == PathResolve(Cwd, p)

existsSync(p) == FsKey(p) \in DOMAIN fs

\* readFileSync succeeds on a regular file and throws on a directory
Readable(p) == fs[FsKey(p)].kind = "file"

readFileSync(p) == fs[FsKey(p)].data

(***************************************************************************)
(* Errors and outcomes                                                     *)
(***************************************************************************)
\* An error object: name, message, and the fields of TSONParseError
\* (tson.ts:41-51).  line and column are <<>> when undefined.  cause is a
\* history field: the error that was caught when this one was constructed.
NoError ==
    [name |-> "none", message |-> <<>>, filePath |-> <<>>,
     line |-> <<>>, column |-> <<>>, cause |-> <<>>]

\* new TSONParseError(message, filePath)
TSONParseError(message, filePath) ==
    [name |-> "TSONParseError", message |-> message, filePath |-> filePath,
     line |-> <<>>, column |-> <<>>, cause |-> <<>>]

\* the SyntaxError of JSON.parse
SyntaxError ==
    [name |-> "SyntaxError", message |-> <<"Unexpected token in JSON">>, filePath |-> <<>>,
     line |-> <<>>, column |-> <<>>, cause |-> <<>>]

\* the error of readFileSync on a directory
ReadError ==
    [name |-> "Error", message |-> <<"EISDIR: illegal operation on a directory, read">>,
     filePath |-> <<>>, line |-> <<>>, column |-> <<>>, cause |-> <<>>]

\* the host's error when the call stack is exhausted
RangeError ==
    [name |-> "RangeError", message |-> <<"Maximum call stack size exceeded">>,
     filePath |-> <<>>, line |-> <<>>, column |-> <<>>, cause |-> <<>>]

\* faulty variant: the error is converted with String(error), which puts its name first
getErrorMessageString(error) == <<error.name, ": ">> \o error.message

\* getErrorMessage, tson.ts:56-61
getErrorMessage(error) == error.message

\* What a call did: returned value (or text, for the import pass) or threw
\* err; log holds the console.error lines in the order they were written.
Return(v, log) == [kind |-> "return", value |-> v, text |-> <<>>, err |-> NoError, log |-> log]

ReturnText(t, log) ==
    [kind |-> "return", value |-> NullV, text |-> t, err |-> NoError, log |-> log]

Throw(e, log) == [kind |-> "throw", value |-> NullV, text |-> <<>>, err |-> e, log |-> log]

\* the depth of nested parseTSON calls the host's stack can hold
MaxDepth == 4

(***************************************************************************)
(* Options                                                                 *)
(***************************************************************************)
\* the options of a call after the defaults of tson.ts:72/106 are applied;
\* filePath = <<>> stands for undefined
Options(strict, baseDir) ==
    [allowTrailingCommas |-> TRUE, allowComments |-> TRUE, allowConst |-> TRUE,
     allowImports |-> TRUE, allowTSONImports |-> TRUE,
     strict |-> strict, filePath |-> <<>>, baseDir |-> baseDir]

IsDefault(o) ==
    /\ o.allowTrailingCommas /\ o.allowComments /\ o.allowConst
    /\ o.allowImports /\ o.allowTSONImports
    /\ ~o.strict

(***************************************************************************)
(* parseTSON, parseTSONString, processTSONImports                          *)
(***************************************************************************)
\* trimmed.match(/^import\s+(\w+)\s+from\s+["']([^"']+\.tson)["'];?$/)
KwImport == <<"i", "m", "p", "o", "r", "t">>

KwFrom == <<"f", "r", "o", "m">>

ExtTson == <<".", "t", "s", "o", "n">>

RECURSIVE RunEndNot(_, _, _)
RunEndNot(s, i, S) == IF i <= Len(s) /\ s[i] \notin S THEN RunEndNot(s, i + 1, S) ELSE i

NoImport == [ok |-> FALSE, varName |-> <<>>, importPath |-> <<>>]

MatchTSONImport(trimmed) ==
    IF ~StartsWith(trimmed, KwImport) THEN NoImport
    ELSE LET a == Len(KwImport) + 1
             b == SkipWs(trimmed, a)
             c == RunEnd(trimmed, b, WordChars)
             d == SkipWs(trimmed, c)
             e == d + Len(KwFrom)
             f == SkipWs(trimmed, e)
             g == RunEndNot(trimmed, f + 1, Quotes)
             importPath == SubSeq(trimmed, f + 1, g - 1)
         IN  IF /\ b > a
                /\ c > b
                /\ d > c
                /\ StartsWith(From(trimmed, d), KwFrom)
                /\ f > e
                /\ At(trimmed, f) \in Quotes
                /\ At(trimmed, g) \in Quotes
                /\ EndsWith(importPath, ExtTson)
                /\ Len(importPath) > Len(ExtTson)
                /\ From(trimmed, g + 1) \in {<<>>, <<";">>}
             THEN [ok |-> TRUE, varName |-> SubSeq(trimmed, b, c - 1), importPath |-> importPath]
             ELSE NoImport

\* the passes of parseTSONString after import resolution (tson.ts:115-136)
Normalized(text, options) ==
    LET c1 == IF options.allowImports THEN removeImports(text) ELSE text
        c2 == IF options.allowComments THEN removeComments(c1) ELSE c1
        c3 == IF options.allowConst THEN processConstDeclarations(c2) ELSE c2
        c4 == QuoteKeys(c3)
    IN  IF options.allowTrailingCommas THEN RemoveTrailingCommas(c4) ELSE c4

RECURSIVE parseTSON(_, _, _)
RECURSIVE parseTSONString(_, _, _)
RECURSIVE ImportOne(_, _, _, _)
RECURSIVE ImportLoop(_, _, _, _, _, _, _)

\* the catch block of processTSONImports (tson.ts:200-207): err was thrown in
\* the try block after the lines of log were written
Caught(err, log, importPath, options) ==
    LET error == [TSONParseError(<<"Failed to import TSON file \"">> \o importPath
                                 \o <<"\": ">> \o getErrorMessage(err),
                                 options.filePath)
                  EXCEPT !.cause = <<err>>]
    IN  IF options.strict THEN Throw(error, log)
        ELSE Return(NullV, Append(log, error.message))

\* faulty variant: an import whose target yields null binds an empty object
AfterImportBindsEmpty(importedContent, importPath, options) ==
    IF importedContent.kind = "throw"
    THEN Caught(importedContent.err, importedContent.log, importPath, options)
    ELSE IF importedContent.value = NullV
    THEN [importedContent EXCEPT !.value = ObjV(<<>>, <<>>)]
    ELSE importedContent

\* tson.ts:195-199 and the catch: what an import line yields once parseTSON
\* has ended with importedContent (a returned null binds nothing)
AfterImport(importedContent, importPath, options) ==
    IF importedContent.kind = "throw"
    THEN Caught(importedContent.err, importedContent.log, importPath, options)
    ELSE importedContent

\* faulty variant: the import target is parsed with comments left in
ImportOptionsKeepComments(strict, resolvedPath) ==
    [allowTrailingCommas |-> TRUE, allowComments |-> FALSE, allowConst |-> TRUE,
     allowImports |-> TRUE, allowTSONImports |-> TRUE,
     strict |-> strict, filePath |-> <<>>, baseDir |-> Dirname(resolvedPath)]

\* the options processTSONImports passes to parseTSON (tson.ts:185-193)
ImportOptions(strict, resolvedPath) ==
    [allowTrailingCommas |-> TRUE, allowComments |-> TRUE, allowConst |-> TRUE,
     allowImports |-> TRUE, allowTSONImports |-> TRUE,
     strict |-> strict, filePath |-> <<>>, baseDir |-> Dirname(resolvedPath)]

\* the try block of processTSONImports for one import line (tson.ts:166-199)
ImportOne(varName, importPath, options, depth) ==
    LET resolvedPath == IF IsAbsolute(importPath) THEN importPath
                        ELSE PathResolve(options.baseDir, importPath)
    IN  IF ~existsSync(resolvedPath)
        THEN LET error == TSONParseError(<<"TSON import file not found: \"">> \o importPath
                                         \o <<"\" (resolved to: ">> \o resolvedPath \o <<")">>,
                                         options.filePath)
             IN  IF options.strict THEN Caught(error, <<>>, importPath, options)
                 ELSE Return(NullV, <<error.message>>)
        ELSE AfterImport(parseTSON(resolvedPath, ImportOptions(options.strict, resolvedPath),
                                   depth + 1),
                         importPath, options)

\* faulty variant: the null of a failed import is bound like any other value
ImportStepBindsNull(lines, i, result, importedData, log, options, depth, varName, r) ==
    IF r.kind = "throw" THEN Throw(r.err, log \o r.log)
    ELSE ImportLoop(lines, i + 1, Append(result, <<>>),
                    Bind(importedData, varName, r.value),
                    log \o r.log, options, depth)

\* the rest of the loop once the import on line i has ended with r
ImportStep(lines, i, result, importedData, log, options, depth, varName, r) ==
    IF r.kind = "throw" THEN Throw(r.err, log \o r.log)
    ELSE ImportLoop(lines, i + 1, Append(result, <<>>),
                    IF r.value # NullV THEN Bind(importedData, varName, r.value)
                    ELSE importedData,
                    log \o r.log, options, depth)

\* the for loop of processTSONImports (tson.ts:159-218)
ImportLoop(lines, i, result, importedData, log, options, depth) ==
    IF i > Len(lines) THEN ReturnText(Join(result, "\n"), log)
    ELSE LET tsonImportMatch == MatchTSONImport(Trim(lines[i]))
         IN  IF tsonImportMatch.ok
             THEN ImportStep(lines, i, result, importedData, log, options, depth,
                             tsonImportMatch.varName,
                             ImportOne(tsonImportMatch.varName, tsonImportMatch.importPath,
                                       options, depth))
             ELSE ImportLoop(lines, i + 1,
                             Append(result, SubstituteAll(lines[i], importedData, 1)),
                             importedData, log, options, depth)

\* processTSONImports, tson.ts:153-221
processTSONImports(text, options, depth) ==
    ImportLoop(Split(text, "\n"), 1, <<>>, <<>>, <<>>, options, depth)

\* faulty variant: a decode failure is thrown whatever the mode
DecodeAlwaysThrows(imported, options) ==
    IF imported.kind = "throw" THEN imported
    ELSE LET parsed == JSONparse(Normalized(imported.text, options))
             errorMessage == <<"TSON parse error">>
                             \o (IF options.filePath # <<>>
                                 THEN <<" in ">> \o options.filePath ELSE <<>>)
                             \o <<": ">> \o getErrorMessage(SyntaxError)
         IN  IF parsed.ok THEN Return(parsed.val, imported.log)
             ELSE Throw(TSONParseError(errorMessage, options.filePath), imported.log)

\* tson.ts:115-147: the passes after import resolution and the strict decode
Decode(imported, options) ==
    IF imported.kind = "throw" THEN imported
    ELSE LET parsed == JSONparse(Normalized(imported.text, options))
             errorMessage == <<"TSON parse error">>
                             \o (IF options.filePath # <<>>
                                 THEN <<" in ">> \o options.filePath ELSE <<>>)
                             \o <<": ">> \o getErrorMessage(SyntaxError)
             error == TSONParseError(errorMessage, options.filePath)
         IN  IF parsed.ok THEN Return(parsed.val, imported.log)
             ELSE IF options.strict THEN Throw(error, imported.log)
             ELSE Return(NullV, Append(imported.log, errorMessage))

\* parseTSONString, tson.ts:102-148
parseTSONString(content, options, depth) ==
    Decode(IF options.allowTSONImports
           THEN processTSONImports(content, options, depth)
           ELSE ReturnText(content, <<>>),
           options)

\* the file the first import line of text names, resolved as processTSONImports
\* resolves it; <<>> when text has no import line
FirstImport(text, baseDir) ==
    LET lines == Split(text, "\n")
        at == {i \in 1..Len(lines) : MatchTSONImport(Trim(lines[i])).ok}
    IN  IF at = {} THEN <<>>
        ELSE LET i == CHOOSE k \in at : \A j \in at : k <= j
                 importPath == MatchTSONImport(Trim(lines[i])).importPath
             IN  IF IsAbsolute(importPath) THEN importPath
                 ELSE PathResolve(baseDir, importPath)

\* following first imports from resolvedPath leads to a file already met
RECURSIVE Revisits(_, _)
Revisits(resolvedPath, seen) ==
    IF resolvedPath = <<>> \/ ~existsSync(resolvedPath) \/ ~Readable(resolvedPath) THEN FALSE
    ELSE IF resolvedPath \in seen THEN TRUE
    ELSE Revisits(FirstImport(readFileSync(resolvedPath), Dirname(resolvedPath)),
                  seen \cup {resolvedPath})

\* faulty variant: a nested parse of a file whose imports lead back to it is refused
parseTSONDetectsCycle(filePath, options, depth) ==
    IF depth > 0 /\ Revisits(filePath, {})
    THEN Throw(TSONParseError(<<"Import cycle: ">> \o filePath, filePath), <<>>)
    ELSE IF depth > MaxDepth THEN Throw(RangeError, <<>>)
    ELSE IF ~existsSync(filePath)
    THEN LET error == TSONParseError(<<"File not found: ">> \o filePath, filePath)
         IN  IF options.strict THEN Throw(error, <<>>)
             ELSE Return(NullV, <<error.message>>)
    ELSE IF ~Readable(filePath)
    THEN LET error == TSONParseError(<<"Failed to read file: ">> \o getErrorMessage(ReadError),
                                     filePath)
         IN  IF options.strict THEN Throw(error, <<>>)
             ELSE Return(NullV, <<error.message>>)
    ELSE parseTSONString(readFileSync(filePath),
                         [options EXCEPT !.filePath = filePath, !.baseDir = Dirname(filePath)],
                         depth)

\* faulty variant: the base directory the caller supplied is kept
parseTSONKeepsBaseDir(filePath, options, depth) ==
    IF depth > MaxDepth THEN Throw(RangeError, <<>>)
    ELSE IF ~existsSync(filePath)
    THEN LET error == TSONParseError(<<"File not found: ">> \o filePath, filePath)
         IN  IF options.strict THEN Throw(error, <<>>)
             ELSE Return(NullV, <<error.message>>)
    ELSE IF ~Readable(filePath)
    THEN LET error == TSONParseError(<<"Failed to read file: ">> \o getErrorMessage(ReadError),
                                     filePath)
         IN  IF options.strict THEN Throw(error, <<>>)
             ELSE Return(NullV, <<error.message>>)
    ELSE parseTSONString(readFileSync(filePath), [options EXCEPT !.filePath = filePath], depth)

\* faulty variant: a missing file is logged and null returned even in strict mode
parseTSONNeverThrows(filePath, options, depth) ==
    IF depth > MaxDepth THEN Throw(RangeError, <<>>)
    ELSE IF ~existsSync(filePath)
    THEN Return(NullV, <<<<"File not found: ">> \o filePath>>)
    ELSE IF ~Readable(filePath)
    THEN Return(NullV, <<<<"Failed to read file: ">> \o getErrorMessage(ReadError)>>)
    ELSE parseTSONString(readFileSync(filePath),
                         [options EXCEPT !.filePath = filePath, !.baseDir = Dirname(filePath)],
                         depth)

\* parseTSON, tson.ts:71-93; depth is the number of enclosing parseTSON calls
parseTSON(filePath, options, depth) ==
    IF depth > MaxDepth THEN Throw(RangeError, <<>>)
    ELSE IF ~existsSync(filePath)
    THEN LET error == TSONParseError(<<"File not found: ">> \o filePath, filePath)
         IN  IF options.strict THEN Throw(error, <<>>)
             ELSE Return(NullV, <<error.message>>)
    ELSE IF ~Readable(filePath)
    THEN LET error == TSONParseError(<<"Failed to read file: ">> \o getErrorMessage(ReadError),
                                     filePath)
         IN  IF options.strict THEN Throw(error, <<>>)
             ELSE Return(NullV, <<error.message>>)
    ELSE parseTSONString(readFileSync(filePath),
                         [options EXCEPT !.filePath = filePath, !.baseDir = Dirname(filePath)],
                         depth)

(***************************************************************************)
(* The documents, paths and file systems the calls are drawn from          *)
(***************************************************************************)
\* /d/base.tson
PathBase ==
    <<"/", "d", "/", "b", "a", "s", "e", ".", "t", "s", "o", "n">>

\* /d/main.tson
PathMain ==
    <<"/", "d", "/", "m", "a", "i", "n", ".", "t", "s", "o", "n">>

\* /d/spread.tson
PathSpread ==
    <<"/", "d", "/", "s", "p", "r", "e", "a", "d", ".", "t", "s", "o", "n">>

\* /d/miss.tson
PathMiss ==
    <<"/", "d", "/", "m", "i", "s", "s", ".", "t", "s", "o", "n">>

\* /d/missunused.tson
PathMissUnused ==
    <<"/", "d", "/", "m", "i", "s", "s", "u", "n", "u", "s", "e", "d", ".", "t", "s",
      "o", "n">>

\* /d/bad.tson
PathBad ==
    <<"/", "d", "/", "b", "a", "d", ".", "t", "s", "o", "n">>

\* /d/mid.tson
PathMid ==
    <<"/", "d", "/", "m", "i", "d", ".", "t", "s", "o", "n">>

\* /d/top.tson
PathTop ==
    <<"/", "d", "/", "t", "o", "p", ".", "t", "s", "o", "n">>

\* /d/dir.tson
PathDir ==
    <<"/", "d", "/", "d", "i", "r", ".", "t", "s", "o", "n">>

\* /d/readsdir.tson
PathReadsDir ==
    <<"/", "d", "/", "r", "e", "a", "d", "s", "d", "i", "r", ".", "t", "s", "o", "n">>

\* /d/sub/inner.tson
PathInner ==
    <<"/", "d", "/", "s", "u", "b", "/", "i", "n", "n", "e", "r", ".", "t", "s", "o",
      "n">>

\* /d/sub/leaf.tson
PathLeaf ==
    <<"/", "d", "/", "s", "u", "b", "/", "l", "e", "a", "f", ".", "t", "s", "o", "n">>

\* /d/outer.tson
PathOuter ==
    <<"/", "d", "/", "o", "u", "t", "e", "r", ".", "t", "s", "o", "n">>

\* /d/absent.tson
PathAbsent ==
    <<"/", "d", "/", "a", "b", "s", "e", "n", "t", ".", "t", "s", "o", "n">>

\* non-existent.tson
PathRelative ==
    <<"n", "o", "n", "-", "e", "x", "i", "s", "t", "e", "n", "t", ".", "t", "s", "o",
      "n">>

\* /d
DirD ==
    <<"/", "d">>

\* { "a": 1 }
BaseQuoted ==
    <<"{", " ", "\"", "a", "\"", ":", " ", "1", " ", "}">>

\* { a: 1, }
BaseBare ==
    <<"{", " ", "a", ":", " ", "1", ",", " ", "}">>

\* // base <NL> { a: 1 }
BaseComment ==
    <<"/", "/", " ", "b", "a", "s", "e", "\n", "{", " ", "a", ":", " ", "1", " ", "}">>

\* const A = 1 <NL> { a: A }
BaseConst ==
    <<"c", "o", "n", "s", "t", " ", "A", " ", "=", " ", "1", "\n", "{", " ", "a", ":",
      " ", "A", " ", "}">>

\* [1]
BaseArray ==
    <<"[", "1", "]">>

\* import x from "./base.tson"; <NL> { "b": x }
DocImport ==
    <<"i", "m", "p", "o", "r", "t", " ", "x", " ", "f", "r", "o", "m", " ", "\"", ".",
      "/", "b", "a", "s", "e", ".", "t", "s", "o", "n", "\"", ";", "\n", "{", " ",
      "\"", "b", "\"", ":", " ", "x", " ", "}">>

\* import x from "./base.tson"; <NL> { ...x, "b": 2 }
DocSpread ==
    <<"i", "m", "p", "o", "r", "t", " ", "x", " ", "f", "r", "o", "m", " ", "\"", ".",
      "/", "b", "a", "s", "e", ".", "t", "s", "o", "n", "\"", ";", "\n", "{", " ", ".",
      ".", ".", "x", ",", " ", "\"", "b", "\"", ":", " ", "2", " ", "}">>

\* import x from "./nope.tson"; <NL> { "b": x }
DocMiss ==
    <<"i", "m", "p", "o", "r", "t", " ", "x", " ", "f", "r", "o", "m", " ", "\"", ".",
      "/", "n", "o", "p", "e", ".", "t", "s", "o", "n", "\"", ";", "\n", "{", " ",
      "\"", "b", "\"", ":", " ", "x", " ", "}">>

\* import x from "./nope.tson"; <NL> { "b": 1 }
DocMissUnused ==
    <<"i", "m", "p", "o", "r", "t", " ", "x", " ", "f", "r", "o", "m", " ", "\"", ".",
      "/", "n", "o", "p", "e", ".", "t", "s", "o", "n", "\"", ";", "\n", "{", " ",
      "\"", "b", "\"", ":", " ", "1", " ", "}">>

\* { "a": }
DocBad ==
    <<"{", " ", "\"", "a", "\"", ":", " ", "}">>

\* import y from "./bad.tson"; <NL> { "m": y }
DocMid ==
    <<"i", "m", "p", "o", "r", "t", " ", "y", " ", "f", "r", "o", "m", " ", "\"", ".",
      "/", "b", "a", "d", ".", "t", "s", "o", "n", "\"", ";", "\n", "{", " ", "\"",
      "m", "\"", ":", " ", "y", " ", "}">>

\* import z from "./mid.tson"; <NL> { "t": z }
DocTop ==
    <<"i", "m", "p", "o", "r", "t", " ", "z", " ", "f", "r", "o", "m", " ", "\"", ".",
      "/", "m", "i", "d", ".", "t", "s", "o", "n", "\"", ";", "\n", "{", " ", "\"",
      "t", "\"", ":", " ", "z", " ", "}">>

\* import d from "./dir.tson" <NL> [d]
DocReadsDir ==
    <<"i", "m", "p", "o", "r", "t", " ", "d", " ", "f", "r", "o", "m", " ", "\"", ".",
      "/", "d", "i", "r", ".", "t", "s", "o", "n", "\"", "\n", "[", "d", "]">>

\* import l from "./leaf.tson"; <NL> { "i": l }
DocInner ==
    <<"i", "m", "p", "o", "r", "t", " ", "l", " ", "f", "r", "o", "m", " ", "\"", ".",
      "/", "l", "e", "a", "f", ".", "t", "s", "o", "n", "\"", ";", "\n", "{", " ",
      "\"", "i", "\"", ":", " ", "l", " ", "}">>

\* [7]
DocLeaf ==
    <<"[", "7", "]">>

\* import s from './sub/inner.tson' <NL> { "o": s }
DocOuter ==
    <<"i", "m", "p", "o", "r", "t", " ", "s", " ", "f", "r", "o", "m", " ", "'", ".",
      "/", "s", "u", "b", "/", "i", "n", "n", "e", "r", ".", "t", "s", "o", "n", "'",
      "\n", "{", " ", "\"", "o", "\"", ":", " ", "s", " ", "}">>

\* {"a":1}
DocJson ==
    <<"{", "\"", "a", "\"", ":", "1", "}">>

\* {"a": {"b": [true, false, null]}}
DocJsonNested ==
    <<"{", "\"", "a", "\"", ":", " ", "{", "\"", "b", "\"", ":", " ", "[", "t", "r",
      "u", "e", ",", " ", "f", "a", "l", "s", "e", ",", " ", "n", "u", "l", "l", "]",
      "}", "}">>

\* {"a":"b:c"}
DocJsonColon ==
    <<"{", "\"", "a", "\"", ":", "\"", "b", ":", "c", "\"", "}">>

\* {"u":"http://x"}
DocJsonUrl ==
    <<"{", "\"", "u", "\"", ":", "\"", "h", "t", "t", "p", ":", "/", "/", "x", "\"", "}">>

\* ["a//b"]
DocJsonSlashes ==
    <<"[", "\"", "a", "/", "/", "b", "\"", "]">>

\* {"a":",}"}
DocJsonCommaBrace ==
    <<"{", "\"", "a", "\"", ":", "\"", ",", "}", "\"", "}">>

\* ["a, ]"]
DocJsonCommaBracket ==
    <<"[", "\"", "a", ",", " ", "]", "\"", "]">>

\* { a: 1 }
DocBareKey ==
    <<"{", " ", "a", ":", " ", "1", " ", "}">>

\* [1, 20]
DocJsonArray ==
    <<"[", "1", ",", " ", "2", "0", "]">>

\* "x"
DocJsonString ==
    <<"\"", "x", "\"">>

\* null
DocJsonNull ==
    <<"n", "u", "l", "l">>

\* { <NL>   "a": [ <NL>     1 <NL>   ] <NL> }
DocJsonLines ==
    <<"{", "\n", " ", " ", "\"", "a", "\"", ":", " ", "[", "\n", " ", " ", " ", " ",
      "1", "\n", " ", " ", "]", "\n", "}">>

\* const P = 8080; <NL> { port: P }
DocConstSemi ==
    <<"c", "o", "n", "s", "t", " ", "P", " ", "=", " ", "8", "0", "8", "0", ";", "\n",
      "{", " ", "p", "o", "r", "t", ":", " ", "P", " ", "}">>

\* const P = 8080 <NL> { port: P }
DocConstNoSemi ==
    <<"c", "o", "n", "s", "t", " ", "P", " ", "=", " ", "8", "0", "8", "0", "\n", "{",
      " ", "p", "o", "r", "t", ":", " ", "P", " ", "}">>

\* const P = 7; <NL> { port: P }
DocConstSmall ==
    <<"c", "o", "n", "s", "t", " ", "P", " ", "=", " ", "7", ";", "\n", "{", " ", "p",
      "o", "r", "t", ":", " ", "P", " ", "}">>

\* const H = "h"; <NL> { host: H }
DocConstString ==
    <<"c", "o", "n", "s", "t", " ", "H", " ", "=", " ", "\"", "h", "\"", ";", "\n",
      "{", " ", "h", "o", "s", "t", ":", " ", "H", " ", "}">>

\* { a: P } <NL> const P = 1
DocForward ==
    <<"{", " ", "a", ":", " ", "P", " ", "}", "\n", "c", "o", "n", "s", "t", " ", "P",
      " ", "=", " ", "1">>

\* [P] <NL> const P = 1;
DocForwardSemi ==
    <<"[", "P", "]", "\n", "c", "o", "n", "s", "t", " ", "P", " ", "=", " ", "1", ";">>

\* [P, <NL> const P = 1 <NL> P]
DocForwardThenUse ==
    <<"[", "P", ",", "\n", "c", "o", "n", "s", "t", " ", "P", " ", "=", " ", "1", "\n",
      "P", "]">>

\* const P = 1 <NL> [P]
DocBackward ==
    <<"c", "o", "n", "s", "t", " ", "P", " ", "=", " ", "1", "\n", "[", "P", "]">>

\* // comment <NL> { host: "localhost", port: 5432, }
DocScenario ==
    <<"/", "/", " ", "c", "o", "m", "m", "e", "n", "t", "\n", "{", " ", "h", "o", "s",
      "t", ":", " ", "\"", "l", "o", "c", "a", "l", "h", "o", "s", "t", "\"", ",", " ",
      "p", "o", "r", "t", ":", " ", "5", "4", "3", "2", ",", " ", "}">>

\* 
DocEmpty ==
    <<>>

\* /d/forward.tson
PathForward ==
    <<"/", "d", "/", "f", "o", "r", "w", "a", "r", "d", ".", "t", "s", "o", "n">>

\* documents that use a constant on the line before the one that declares it:
\* <use of name> <NL> const <name> = <value>
ForwardNames == {<<"P">>, <<"A", "B">>}

ForwardValues == {<<"1">>, <<"1", ";">>, <<"\"", "s", "\"">>}

UseShapes == {"array", "member", "element"}

UseLine(shape, name) ==
    CASE shape = "array" -> <<"[">> \o name \o <<"]">>
      [] shape = "member" -> <<"{", " ", "a", ":", " ">> \o name \o <<" ", "}">>
      [] shape = "element" -> <<"[", "1", ",", " ">> \o name \o <<"]">>

ForwardDocs ==
    {UseLine(shape, name) \o <<"\n">> \o KwConst \o <<" ">> \o name \o <<" ", "=", " ">> \o value :
        shape \in UseShapes, name \in ForwardNames, value \in ForwardValues}

\* import x from "./base.tson" <NL> import y from "./nope.tson" <NL> { a: x, b: y }
DocTwoImports ==
    <<"i", "m", "p", "o", "r", "t", " ", "x", " ", "f", "r", "o", "m", " ", "\"", ".",
      "/", "b", "a", "s", "e", ".", "t", "s", "o", "n", "\"", "\n", "i", "m", "p", "o",
      "r", "t", " ", "y", " ", "f", "r", "o", "m", " ", "\"", ".", "/", "n", "o", "p",
      "e", ".", "t", "s", "o", "n", "\"", "\n", "{", " ", "a", ":", " ", "x", ",", " ",
      "b", ":", " ", "y", " ", "}">>

\* import z from "./bad.tson" <NL> [1, z]
DocImportBad ==
    <<"i", "m", "p", "o", "r", "t", " ", "z", " ", "f", "r", "o", "m", " ", "\"", ".",
      "/", "b", "a", "d", ".", "t", "s", "o", "n", "\"", "\n", "[", "1", ",", " ", "z",
      "]">>

\* documents made of a comment line and an object with two bare keys, scalar
\* values and a trailing comma:
\* // <comment> <NL> { <key1>: <first>, <key2>: <second>, }
ScenarioValues ==
    {[src |-> <<"\"", "l", "o", "c", "a", "l", "h", "o", "s", "t", "\"">>,
      val |-> StrV(<<"l", "o", "c", "a", "l", "h", "o", "s", "t">>)],
     [src |-> <<"5", "4", "3", "2">>, val |-> NumV(5432)],
     [src |-> <<"-", "7">>, val |-> NumV(0 - 7)],
     [src |-> LitTrue, val |-> BoolV(TRUE)],
     [src |-> LitNull, val |-> NullV],
     [src |-> <<"\"", "a", "/", "/", "b", "\"">>, val |-> StrV(<<"a", "/", "/", "b">>)],
     [src |-> <<"\"", "x", ",", " ", "y", "\"">>, val |-> StrV(<<"x", ",", " ", "y">>)]}

ScenarioHeads ==
    {[comment |-> <<" ", "c", "o", "m", "m", "e", "n", "t">>,
      key1 |-> <<"h", "o", "s", "t">>, key2 |-> <<"p", "o", "r", "t">>],
     [comment |-> <<"k", ":", " ", "\"", "v", "\"", ",", " ", "}">>,
      key1 |-> <<"a", "_", "b">>, key2 |-> <<"x", "1">>]}

ScenarioCases ==
    {[head |-> h, first |-> a, second |-> b] :
        h \in ScenarioHeads, a \in ScenarioValues,
        b \in {v \in ScenarioValues : v.val.t = "num"}}

ScenarioDoc(c) ==
    <<"/", "/">> \o c.head.comment \o <<"\n", "{", " ">>
    \o c.head.key1 \o <<":", " ">> \o c.first.src \o <<",", " ">>
    \o c.head.key2 \o <<":", " ">> \o c.second.src \o <<",", " ", "}">>

ScenarioDocs == {ScenarioDoc(c) : c \in ScenarioCases}

\* { "a": 1 } followed by a form feed
DocFormFeed ==
    <<"{", " ", "\"", "a", "\"", ":", " ", "1", " ", "}", "\f">>

\* { a: 1, <blank> <blank> <NL> } <blank>
DocTrailingBlanks ==
    <<"{", " ", "a", ":", " ", "1", ",", " ", " ", "\n", "}", " ">>

\* bodies of objects and of arrays, for documents with a trailing comma:
\* { <body> , <white space> }   and   [ <elements> , <white space> ]
\* "a":1
BodyQuoted ==
    <<"\"", "a", "\"", ":", "1">>

\*  a: 1 
BodyBare ==
    <<" ", "a", ":", " ", "1", " ">>

\* "a":"x","b":[1,2]
BodyTwo ==
    <<"\"", "a", "\"", ":", "\"", "x", "\"", ",", "\"", "b", "\"", ":", "[", "1", ",",
      "2", "]">>

\* "a":{"b":1,}
BodyInnerComma ==
    <<"\"", "a", "\"", ":", "{", "\"", "b", "\"", ":", "1", ",", "}">>

\* "s":",}"
BodyCommaBrace ==
    <<"\"", "s", "\"", ":", "\"", ",", "}", "\"">>

\* "u":"b:c"
BodyColon ==
    <<"\"", "u", "\"", ":", "\"", "b", ":", "c", "\"">>

\*  <NL>  a: 1, // c <NL>  b: 2 <NL> 
BodyLines ==
    <<"\n", " ", "a", ":", " ", "1", ",", " ", "/", "/", " ", "c", "\n", " ", "b", ":",
      " ", "2", "\n">>

\* 1
ElemsOne ==
    <<"1">>

\* 1, 2
ElemsTwo ==
    <<"1", ",", " ", "2">>

\* "x"
ElemsString ==
    <<"\"", "x", "\"">>

\* [1,],{a:1}
ElemsNested ==
    <<"[", "1", ",", "]", ",", "{", "a", ":", "1", "}">>

\* true,null
ElemsLiterals ==
    <<"t", "r", "u", "e", ",", "n", "u", "l", "l">>

ObjectBodies ==
    {BodyQuoted, BodyBare, BodyTwo, BodyInnerComma, BodyCommaBrace, BodyColon, BodyLines}

ArrayBodies == {ElemsOne, ElemsTwo, ElemsString, ElemsNested, ElemsLiterals}

\* the white space between the trailing comma and the closing bracket
TrailingBlanks == {<<>>, <<" ">>, <<"\n", " ">>}

TrailingCases ==
    {[open |-> "{", body |-> b, blank |-> w, close |-> "}"] :
        b \in ObjectBodies, w \in TrailingBlanks}
    \cup {[open |-> "[", body |-> b, blank |-> w, close |-> "]"] :
        b \in ArrayBodies, w \in TrailingBlanks}

WithTrailingComma(c) == <<c.open>> \o c.body \o <<",">> \o c.blank \o <<c.close>>

WithoutTrailingComma(c) == <<c.open>> \o c.body \o <<c.close>>

TrailingDocs == {WithTrailingComma(c) : c \in TrailingCases}

\* /d/nl.tson
PathNl ==
    <<"/", "d", "/", "n", "l", ".", "t", "s", "o", "n">>

\* ["a\nb"]
DocNl ==
    <<"[", "\"", "a", "\\", "n", "b", "\"", "]">>

\* import n from "./nl.tson" <NL> [n]
DocImportNl ==
    <<"i", "m", "p", "o", "r", "t", " ", "n", " ", "f", "r", "o", "m", " ", "\"", ".",
      "/", "n", "l", ".", "t", "s", "o", "n", "\"", "\n", "[", "n", "]">>

\* import y from "./y.js" <NL> { "a": 1 }
DocForeignImport ==
    <<"i", "m", "p", "o", "r", "t", " ", "y", " ", "f", "r", "o", "m", " ", "\"", ".",
      "/", "y", ".", "j", "s", "\"", "\n", "{", " ", "\"", "a", "\"", ":", " ", "1",
      " ", "}">>

\* const S = "a\nb" <NL> [S]
DocConstNl ==
    <<"c", "o", "n", "s", "t", " ", "S", " ", "=", " ", "\"", "a", "\\", "n", "b",
      "\"", "\n", "[", "S", "]">>

\* // c <NL> { a: 1, // d <NL>   b: 2 }   <NL> // e
DocCommentLines ==
    <<"/", "/", " ", "c", "\n", "{", " ", "a", ":", " ", "1", ",", " ", "/", "/", " ",
      "d", "\n", " ", " ", "b", ":", " ", "2", " ", "}", " ", " ", "\n", "/", "/", " ",
      "e">>

\* documents that declare a constant A and use it on a later line, with or
\* without a second constant B declared in between:
\* const A = <src> <NL> [ const B = 1 <NL> ] [A]
SubstSources ==
    {[src |-> <<"\"", "a", "\"">>, val |-> StrV(<<"a">>)],
     [src |-> <<"7">>, val |-> NumV(7)],
     [src |-> <<"\"", "$", "$", "\"">>, val |-> StrV(<<"$", "$">>)],
     [src |-> <<"\"", "$", "&", "\"">>, val |-> StrV(<<"$", "&">>)],
     [src |-> <<"\"", "x", " ", "B", "\"">>, val |-> StrV(<<"x", " ", "B">>)]}

SubstCases == {[src |-> c.src, val |-> c.val, other |-> o] : c \in SubstSources, o \in BOOLEAN}

SubstDoc(c) ==
    KwConst \o <<" ", "A", " ", "=", " ">> \o c.src \o <<"\n">>
    \o (IF c.other THEN KwConst \o <<" ", "B", " ", "=", " ", "1", "\n">> ELSE <<>>)
    \o <<"[", "A", "]">>

SubstDocs == {SubstDoc(c) : c \in SubstCases}

\* documents that declare the constant P twice:
\* const P = <first> <NL> [P, <NL> const P = <second> <NL> P]
RedeclSources ==
    {[src |-> <<"1">>, val |-> NumV(1)],
     [src |-> <<"2">>, val |-> NumV(2)],
     [src |-> <<"\"", "s", "\"">>, val |-> StrV(<<"s">>)]}

RedeclCases == {[first |-> a, second |-> b] : a \in RedeclSources, b \in RedeclSources}

RedeclDoc(c) ==
    KwConst \o <<" ", "P", " ", "=", " ">> \o c.first.src \o <<"\n", "[", "P", ",", "\n">>
    \o KwConst \o <<" ", "P", " ", "=", " ">> \o c.second.src \o <<"\n", "P", "]">>

RedeclDocs == {RedeclDoc(c) : c \in RedeclCases}

\* Files whose imports lead back to themselves: self.tson imports itself,
\* ping.tson and pong.tson import each other.
\* /d/self.tson
PathSelf ==
    <<"/", "d", "/", "s", "e", "l", "f", ".", "t", "s", "o", "n">>

\* /d/ping.tson
PathPing ==
    <<"/", "d", "/", "p", "i", "n", "g", ".", "t", "s", "o", "n">>

\* /d/pong.tson
PathPong ==
    <<"/", "d", "/", "p", "o", "n", "g", ".", "t", "s", "o", "n">>

\* import s from "./self.tson" <NL> [s]
DocSelf ==
    <<"i", "m", "p", "o", "r", "t", " ", "s", " ", "f", "r", "o", "m", " ", "\"", ".",
      "/", "s", "e", "l", "f", ".", "t", "s", "o", "n", "\"", "\n", "[", "s", "]">>

\* import p from "./pong.tson" <NL> [p]
DocPing ==
    <<"i", "m", "p", "o", "r", "t", " ", "p", " ", "f", "r", "o", "m", " ", "\"", ".",
      "/", "p", "o", "n", "g", ".", "t", "s", "o", "n", "\"", "\n", "[", "p", "]">>

\* import q from "./ping.tson" <NL> [q]
DocPong ==
    <<"i", "m", "p", "o", "r", "t", " ", "q", " ", "f", "r", "o", "m", " ", "\"", ".",
      "/", "p", "i", "n", "g", ".", "t", "s", "o", "n", "\"", "\n", "[", "q", "]">>

\* Files and documents that use a name another document declares
\* /d/declb.tson
PathDeclB ==
    <<"/", "d", "/", "d", "e", "c", "l", "b", ".", "t", "s", "o", "n">>

\* /d/usesb.tson
PathUsesB ==
    <<"/", "d", "/", "u", "s", "e", "s", "b", ".", "t", "s", "o", "n">>

\* /d/usesx.tson
PathUsesX ==
    <<"/", "d", "/", "u", "s", "e", "s", "x", ".", "t", "s", "o", "n">>

\* const B = 2 <NL> [B]
DocDeclB ==
    <<"c", "o", "n", "s", "t", " ", "B", " ", "=", " ", "2", "\n", "[", "B", "]">>

\* [B]
DocUsesB ==
    <<"[", "B", "]">>

\* [x]
DocUsesX ==
    <<"[", "x", "]">>

\* import x from "./declb.tson" <NL> [x, B]
DocLeakUp ==
    <<"i", "m", "p", "o", "r", "t", " ", "x", " ", "f", "r", "o", "m", " ", "\"", ".",
      "/", "d", "e", "c", "l", "b", ".", "t", "s", "o", "n", "\"", "\n", "[", "x", ",",
      " ", "B", "]">>

\* import x from "./usesb.tson" <NL> const B = 1 <NL> [B]
DocLeakDown ==
    <<"i", "m", "p", "o", "r", "t", " ", "x", " ", "f", "r", "o", "m", " ", "\"", ".",
      "/", "u", "s", "e", "s", "b", ".", "t", "s", "o", "n", "\"", "\n", "c", "o", "n",
      "s", "t", " ", "B", " ", "=", " ", "1", "\n", "[", "B", "]">>

\* import x from "./declb.tson" <NL> import y from "./usesb.tson" <NL> [x]
DocSiblings ==
    <<"i", "m", "p", "o", "r", "t", " ", "x", " ", "f", "r", "o", "m", " ", "\"", ".",
      "/", "d", "e", "c", "l", "b", ".", "t", "s", "o", "n", "\"", "\n", "i", "m", "p",
      "o", "r", "t", " ", "y", " ", "f", "r", "o", "m", " ", "\"", ".", "/", "u", "s",
      "e", "s", "b", ".", "t", "s", "o", "n", "\"", "\n", "[", "x", "]">>

\* import x from "./declb.tson" <NL> import y from "./usesx.tson" <NL> [x]
DocSiblingName ==
    <<"i", "m", "p", "o", "r", "t", " ", "x", " ", "f", "r", "o", "m", " ", "\"", ".",
      "/", "d", "e", "c", "l", "b", ".", "t", "s", "o", "n", "\"", "\n", "i", "m", "p",
      "o", "r", "t", " ", "y", " ", "f", "r", "o", "m", " ", "\"", ".", "/", "u", "s",
      "e", "s", "x", ".", "t", "s", "o", "n", "\"", "\n", "[", "x", "]">>

\* import s from "./sub/inner.tson" <NL> [s, l]
DocLeakUpName ==
    <<"i", "m", "p", "o", "r", "t", " ", "s", " ", "f", "r", "o", "m", " ", "\"", ".",
      "/", "s", "u", "b", "/", "i", "n", "n", "e", "r", ".", "t", "s", "o", "n", "\"",
      "\n", "[", "s", ",", " ", "l", "]">>

\* /d/leaf.tson stands next to outer.tson, not next to sub/inner.tson, which imports
\* ./leaf.tson; sub/innermiss.tson imports ./main.tson, which exists in /d only
\* /d/leaf.tson
PathDecoyLeaf ==
    <<"/", "d", "/", "l", "e", "a", "f", ".", "t", "s", "o", "n">>

\* /d/sub/innermiss.tson
PathInnerMiss ==
    <<"/", "d", "/", "s", "u", "b", "/", "i", "n", "n", "e", "r", "m", "i", "s", "s",
      ".", "t", "s", "o", "n">>

\* /d/outermiss.tson
PathOuterMiss ==
    <<"/", "d", "/", "o", "u", "t", "e", "r", "m", "i", "s", "s", ".", "t", "s", "o",
      "n">>

\* [8]
DocDecoyLeaf ==
    <<"[", "8", "]">>

\* import b from "./main.tson" <NL> [b]
DocInnerMiss ==
    <<"i", "m", "p", "o", "r", "t", " ", "b", " ", "f", "r", "o", "m", " ", "\"", ".",
      "/", "m", "a", "i", "n", ".", "t", "s", "o", "n", "\"", "\n", "[", "b", "]">>

\* import s from "./sub/innermiss.tson" <NL> [s]
DocOuterMiss ==
    <<"i", "m", "p", "o", "r", "t", " ", "s", " ", "f", "r", "o", "m", " ", "\"", ".",
      "/", "s", "u", "b", "/", "i", "n", "n", "e", "r", "m", "i", "s", "s", ".", "t",
      "s", "o", "n", "\"", "\n", "[", "s", "]">>

\* /d/null.tson holds the document null (DocJsonNull)
\* /d/null.tson
PathNull ==
    <<"/", "d", "/", "n", "u", "l", "l", ".", "t", "s", "o", "n">>

\* import n from "./null.tson" <NL> [n]
DocImportNull ==
    <<"i", "m", "p", "o", "r", "t", " ", "n", " ", "f", "r", "o", "m", " ", "\"", ".",
      "/", "n", "u", "l", "l", ".", "t", "s", "o", "n", "\"", "\n", "[", "n", "]">>

File(data) == [kind |-> "file", data |-> data]

Directory == [kind |-> "dir", data |-> <<>>]

\* the files every file system holds; /d/base.tson varies, /d/nope.tson and
\* /d/absent.tson never exist
CommonFiles ==
    (PathMain :> File(DocImport)) @@ (PathSpread :> File(DocSpread))
    @@ (PathMiss :> File(DocMiss)) @@ (PathMissUnused :> File(DocMissUnused))
    @@ (PathBad :> File(DocBad)) @@ (PathMid :> File(DocMid)) @@ (PathTop :> File(DocTop))
    @@ (PathDir :> Directory) @@ (PathReadsDir :> File(DocReadsDir))
    @@ (PathInner :> File(DocInner)) @@ (PathLeaf :> File(DocLeaf))
    @@ (PathOuter :> File(DocOuter)) @@ (PathForward :> File(DocForward))
    @@ (PathNl :> File(DocNl))
    @@ (PathSelf :> File(DocSelf)) @@ (PathPing :> File(DocPing))
    @@ (PathPong :> File(DocPong))
    @@ (PathDeclB :> File(DocDeclB)) @@ (PathUsesB :> File(DocUsesB))
    @@ (PathUsesX :> File(DocUsesX))
    @@ (PathDecoyLeaf :> File(DocDecoyLeaf)) @@ (PathInnerMiss :> File(DocInnerMiss))
    @@ (PathOuterMiss :> File(DocOuterMiss)) @@ (PathNull :> File(DocJsonNull))

BaseContents == {BaseQuoted, BaseBare, BaseComment, BaseConst, BaseArray, DocBad}

FileSystems ==
    {CommonFiles} \cup {(PathBase :> File(b)) @@ CommonFiles : b \in BaseContents}

Paths ==
    {PathBase, PathMain, PathSpread, PathMiss, PathMissUnused, PathBad, PathMid, PathTop,
     PathDir, PathReadsDir, PathInner, PathLeaf, PathOuter, PathForward, PathAbsent,
     PathRelative, PathNl, PathSelf, PathPing, PathPong,
     PathDeclB, PathUsesB, PathInnerMiss, PathOuterMiss, PathNull}

Docs ==
    {BaseQuoted, BaseBare, BaseComment, BaseConst, BaseArray,
     DocImport, DocSpread, DocMiss, DocMissUnused, DocBad, DocMid, DocTop, DocReadsDir,
     DocOuter, DocJson, DocJsonNested, DocJsonColon, DocJsonUrl, DocJsonSlashes,
     DocJsonCommaBrace, DocJsonArray, DocJsonString, DocJsonNull, DocJsonLines,
     DocConstSemi, DocConstNoSemi, DocConstSmall, DocConstString,
     DocForward, DocForwardSemi, DocForwardThenUse, DocBackward, DocScenario, DocEmpty}
    \cup {DocImportNl, DocForeignImport, DocConstNl, DocCommentLines, DocTwoImports,
          DocImportBad, DocFormFeed, DocTrailingBlanks, DocSelf,
          DocJsonCommaBracket, DocBareKey,
          DocLeakUp, DocLeakDown, DocSiblings, DocSiblingName, DocLeakUpName,
          DocOuterMiss, DocImportNull}
    \cup ForwardDocs \cup TrailingDocs \cup SubstDocs \cup RedeclDocs \cup ScenarioDocs

BaseDirs == {DirD, Cwd}

(***************************************************************************)
(* The state machine: a file system, and calls of the two entry points,    *)
(* one at a time (the parser is synchronous)                               *)
(***************************************************************************)
NoCall == [fn |-> "none", content |-> <<>>, filePath |-> <<>>, options |-> Options(FALSE, Cwd)]

NoOutcome == [kind |-> "none", value |-> NullV, text |-> <<>>, err |-> NoError, log |-> <<>>]

Init ==
    /\ fs \in FileSystems
    /\ call = NoCall
    /\ outcome = NoOutcome
    /\ Quiet

\* the feature flag a call switches off ("none": all five keep their default)
FlagChoices ==
    {"none", "allowTrailingCommas", "allowComments", "allowConst", "allowImports",
     "allowTSONImports", "all"}

WithoutFlag(o, off) ==
    CASE off = "allowTrailingCommas" -> [o EXCEPT !.allowTrailingCommas = FALSE]
      [] off = "allowComments" -> [o EXCEPT !.allowComments = FALSE]
      [] off = "allowConst" -> [o EXCEPT !.allowConst = FALSE]
      [] off = "allowImports" -> [o EXCEPT !.allowImports = FALSE]
      [] off = "allowTSONImports" -> [o EXCEPT !.allowTSONImports = FALSE]
      [] off = "all" -> [o EXCEPT !.allowTrailingCommas = FALSE, !.allowComments = FALSE,
                                  !.allowConst = FALSE, !.allowImports = FALSE,
                                  !.allowTSONImports = FALSE]
      [] OTHER -> o

\* the documents that are also parsed with one flag, or all flags, switched off
FlagDocs ==
    {DocImport, DocScenario, DocConstNoSemi, DocForeignImport, DocBareKey, DocJson, DocJsonUrl,
     DocJsonColon}

\* parseTSONString(content, { strict, baseDir, <flag>: false })
CallParseTSONString ==
    \E content \in Docs, strict \in BOOLEAN, baseDir \in BaseDirs, off \in FlagChoices :
        LET options == WithoutFlag(Options(strict, baseDir), off)
        IN  /\ off = "none" \/ (content \in FlagDocs /\ baseDir = DirD)
            /\ call = NoCall
            /\ call' = [fn |-> "parseTSONString", content |-> content,
                        filePath |-> <<>>, options |-> options]
            /\ outcome' = parseTSONString(content, options, 0)
            /\ UNCHANGED <<fs, frames, watchVars>>

\* parseTSON(filePath, { strict })
CallParseTSON ==
    \E filePath \in Paths, strict \in BOOLEAN, baseDir \in BaseDirs :
        LET options == Options(strict, baseDir)
        IN  /\ call = NoCall
            /\ call' = [fn |-> "parseTSON", content |-> <<>>,
                        filePath |-> filePath, options |-> options]
            /\ outcome' = parseTSON(filePath, options, 0)
            /\ UNCHANGED <<fs, frames, watchVars>>

\* the caller has taken the outcome; the parser keeps no state between calls
Finish ==
    /\ call # NoCall
    /\ call' = NoCall
    /\ outcome' = NoOutcome
    /\ UNCHANGED <<fs, frames, watchVars>>

Next == CallParseTSONString \/ CallParseTSON \/ Finish

Spec == Init /\ [][Next]_vars

(***************************************************************************)
(* What a finished call was given                                          *)
(***************************************************************************)
Lines(text) == Split(text, "\n")

\* the call is a parse of a text: a parseTSONString call, or a parseTSON call
\* whose file was read (tson.ts:92)
ParsesText ==
    \/ call.fn = "parseTSONString"
    \/ call.fn = "parseTSON" /\ existsSync(call.filePath) /\ Readable(call.filePath)

\* the text it parses and the options parseTSONString sees
SourceText == IF call.fn = "parseTSON" THEN readFileSync(call.filePath) ELSE call.content

SourceOptions ==
    IF call.fn = "parseTSON"
    THEN [call.options EXCEPT !.filePath = call.filePath, !.baseDir = Dirname(call.filePath)]
    ELSE call.options

\* the path an import line of the parsed text resolves to (tson.ts:168-170)
ResolvedImport(importPath) ==
    IF IsAbsolute(importPath) THEN importPath
    ELSE PathResolve(SourceOptions.baseDir, importPath)

IsImportLine(line) == MatchTSONImport(Trim(line)).ok

\* line i is an import whose target file does not exist
MissingImportAt(text, i) ==
    /\ i \in 1..Len(Lines(text))
    /\ IsImportLine(Lines(text)[i])
    /\ ~existsSync(ResolvedImport(MatchTSONImport(Trim(Lines(text)[i])).importPath))

\* the first import line of the text is one whose target does not exist
FirstImportMissing(text) ==
    \E i \in 1..Len(Lines(text)) :
        /\ MissingImportAt(text, i)
        /\ \A j \in 1..(i - 1) : ~IsImportLine(Lines(text)[j])

KeyA == <<"a">>

KeyB == <<"b">>

KeyPort == <<"p", "o", "r", "t">>

\* { a: 1 }
ObjA1 == ObjV(<<KeyA>>, <<NumV(1)>>)

\* /d/base.tson exists and decodes to v
BaseDecodesTo(v) ==
    /\ existsSync(PathBase)
    /\ parseTSON(PathBase, Options(FALSE, Cwd), 0) = Return(v, <<>>)

(***************************************************************************)
(* C1.  JSON superset: every text the strict JSON decoder accepts is       *)
(* decoded by parseTSONString (default options) to exactly the value the   *)
(* strict decoder gives, whatever characters its strings contain.          *)
(* Refuted: {"a":"b:c"} is valid JSON and parseTSONString returns null.    *)
(***************************************************************************)
C1_JsonSuperset ==
    (/\ call.fn = "parseTSONString"
     /\ IsDefault(call.options)
     /\ JSONparse(call.content).ok)
    => (/\ outcome.kind = "return"
        /\ outcome.value = JSONparse(call.content).val)

(***************************************************************************)
(* C2.  `const P = <n>;` followed by `{ port: P }` decodes (default        *)
(* options) to an object whose port is the number n.                       *)
(* Refuted: the value group of the declaration takes the ';', the literal  *)
(* decode fails and P is bound to the string "8080".                       *)
(***************************************************************************)
PortNumbers == {7, 8080}

\* const P = <n>; <NL> { port: P }
ConstPortDoc(n) ==
    <<"c", "o", "n", "s", "t", " ", "P", " ", "=", " ">> \o NatToDigits(n)
    \o <<";", "\n", "{", " ", "p", "o", "r", "t", ":", " ", "P", " ", "}">>

C2_ConstIsNumber ==
    \A n \in PortNumbers :
        (/\ call.fn = "parseTSONString"
         /\ IsDefault(call.options)
         /\ call.content = ConstPortDoc(n))
        => (/\ outcome.kind = "return"
            /\ outcome.value = ObjV(<<KeyPort>>, <<NumV(n)>>))

(***************************************************************************)
(* C3.  With a base.tson that decodes to { a: 1 }, the document            *)
(* `import x from "./base.tson";` / `{ "b": x }` parses (default options,  *)
(* base directory holding base.tson) to { b: { a: 1 } }.                   *)
(***************************************************************************)
C3_Case ==
    /\ ParsesText
    /\ SourceText = DocImport
    /\ SourceOptions.baseDir = DirD
    /\ IsDefault(call.options)
    /\ BaseDecodesTo(ObjA1)

C3_ImportSubstitution ==
    C3_Case => outcome = Return(ObjV(<<KeyB>>, <<ObjA1>>), <<>>)

C3_Witness ==
    /\ C3_Case
    /\ call.fn = "parseTSONString"
    /\ fs[PathBase].data = BaseComment
    /\ outcome.value = ObjV(<<KeyB>>, <<ObjA1>>)

(***************************************************************************)
(* C4.  A document that imports an object-valued file as x and spreads it  *)
(* (`...x`) inside its top-level object parses in strict mode, without     *)
(* raising, to an object holding the imported keys and its own keys.       *)
(* Refuted: `...{"a":1}` is handed to JSON.parse, which rejects it.        *)
(***************************************************************************)
C4_SpreadMerges ==
    (/\ ParsesText
     /\ SourceText = DocSpread
     /\ SourceOptions.baseDir = DirD
     /\ call.options.strict
     /\ BaseDecodesTo(ObjA1))
    => (/\ outcome.kind = "return"
        /\ outcome.value.t = "obj"
        /\ HasProp(outcome.value, KeyA)
        /\ HasProp(outcome.value, KeyB))

(***************************************************************************)
(* C5.  In strict mode an import whose target file does not exist makes    *)
(* the call raise the 'import file not found' error (not the import        *)
(* failure error), with a message that references the unresolved path.     *)
(* Refuted: the error is thrown inside the try block, so the catch block   *)
(* replaces it by a 'Failed to import TSON file' error.                    *)
(***************************************************************************)
MsgImportNotFound == <<"TSON import file not found: \"">>

C5_ImportNotFoundKind ==
    (/\ ParsesText
     /\ call.options.strict
     /\ call.options.allowTSONImports
     /\ FirstImportMissing(SourceText))
    => (/\ outcome.kind = "throw"
        /\ StartsWith(outcome.err.message, MsgImportNotFound)
        /\ \E i \in 1..Len(Lines(SourceText)) :
               /\ MissingImportAt(SourceText, i)
               /\ Contains(outcome.err.message,
                           MatchTSONImport(Trim(Lines(SourceText)[i])).importPath))

(***************************************************************************)
(* Helpers of the claims about failures                                    *)
(***************************************************************************)
SomeImportMissing(text) == \E i \in 1..Len(Lines(text)) : MissingImportAt(text, i)

ImportPathAt(text, i) == MatchTSONImport(Trim(Lines(text)[i])).importPath

ImportNameAt(text, i) == MatchTSONImport(Trim(Lines(text)[i])).varName

\* the text with every import line whose target is missing replaced by a
\* blank line
BlankMissing(text) ==
    Join([i \in 1..Len(Lines(text)) |->
              IF MissingImportAt(text, i) THEN <<>> ELSE Lines(text)[i]],
         "\n")

\* the first non-blank character before / after position p, "" if none
RECURSIVE PrevNonSpace(_, _)
PrevNonSpace(line, p) ==
    IF p < 1 THEN "" ELSE IF IsSpace(line[p]) THEN PrevNonSpace(line, p - 1) ELSE line[p]

NextNonSpace(line, p) == At(line, SkipWs(line, p))

\* name stands on the line as a bare token in value position: a whole word
\* outside any string or comment, after ':' '[' or ',' and not itself a key
BareValueUse(line, name) ==
    \E p \in 1..Len(line) :
        /\ WordAt(line, name, p)
        /\ \A q \in 1..(p - 1) : line[q] \notin Quotes /\ ~(line[q] = "/" /\ line[q + 1] = "/")
        /\ PrevNonSpace(line, p - 1) \in {":", "[", ","}
        /\ NextNonSpace(line, p + Len(name)) # ":"

DeclaresConst(line, name) ==
    MatchConst(Trim(line)).ok /\ MatchConst(Trim(line)).name = name

\* the same call in the other mode
Rerun(strict) ==
    IF call.fn = "parseTSON"
    THEN parseTSON(call.filePath, [call.options EXCEPT !.strict = strict], 0)
    ELSE parseTSONString(call.content, [call.options EXCEPT !.strict = strict], 0)

MsgParseError == <<"TSON parse error">>

MsgFailedImport == <<"Failed to import TSON file \"">>

\* the text handed to the strict decoder by a parse of text in lenient mode
FinalText(text, options) ==
    Normalized(IF options.allowTSONImports
               THEN processTSONImports(text, [options EXCEPT !.strict = FALSE], 0).text
               ELSE text,
               options)

(***************************************************************************)
(* C6.  (as claimed) In lenient mode every parse of a document with an     *)
(* import whose target does not exist emits a diagnostic and returns null. *)
(* Refuted: when the imported name is not used, the rest of the document   *)
(* decodes and is returned.                                                *)
(***************************************************************************)
C6_Case ==
    /\ ParsesText
    /\ ~call.options.strict
    /\ call.options.allowTSONImports
    /\ SomeImportMissing(SourceText)

RECURSIVE Origin(_)
Origin(e) == IF e.cause = <<>> THEN e ELSE Origin(e.cause[1])

RECURSIVE WrapCount(_)
WrapCount(e) == IF e.cause = <<>> THEN 0 ELSE 1 + WrapCount(e.cause[1])

C7_Original ==
    (call # NoCall /\ call.options.strict /\ outcome.kind = "throw")
    => outcome.err = Origin(outcome.err)

(***************************************************************************)
(* C7 (amended).  In strict mode a failure at any depth of the import      *)
(* graph aborts the top-level call with a TSONParseError that carries the  *)
(* top-level document's file path; a failure that arose while resolving an *)
(* import is not passed on as it was constructed: each import level        *)
(* constructs a new error whose message is `Failed to import TSON file     *)
(* "<path>": ` followed by the message of the error it caught, so the      *)
(* originating message is the tail of the message the caller receives.     *)
(***************************************************************************)
\* e's message is the import-failure prefix, a path, `": ` and the message of
\* the error that was caught, and so on down to the originating error
RECURSIVE WellWrapped(_, _)
WellWrapped(e, filePath) ==
    /\ e.name = "TSONParseError"
    /\ e.cause # <<>> =>
           LET c == e.cause[1]
               k == Len(e.message) - Len(c.message)
           IN  /\ e.filePath = filePath
               /\ StartsWith(e.message, MsgFailedImport)
               /\ k > Len(MsgFailedImport) + 1
               /\ e.message[k] = "\": "
               /\ From(e.message, k + 1) = c.message
               /\ c.cause # <<>> => WellWrapped(c, c.filePath)

C7_StrictAbortsWrapped ==
    (call # NoCall /\ call.options.strict /\ Rerun(FALSE).log # <<>>)
    => (/\ outcome.kind = "throw"
        /\ outcome.err.filePath = call.filePath
        /\ WellWrapped(outcome.err, call.filePath)
        /\ EndsWith(outcome.err.message, Origin(outcome.err).message))

\* a decode failure two imports down reaches the caller wrapped twice
C7_Witness ==
    /\ call.fn = "parseTSON"
    /\ call.filePath = PathTop
    /\ call.options.strict
    /\ outcome.kind = "throw"
    /\ WrapCount(outcome.err) = 2
    /\ Origin(outcome.err).filePath = PathBad
    /\ StartsWith(Origin(outcome.err).message, MsgParseError)

(***************************************************************************)
(* C8.  (as claimed) In lenient mode parseTSON and parseTSONString never   *)
(* raise over an acyclic import graph: every failure is reported on the    *)
(* diagnostic channel and the call returns null.                           *)
(* Refuted in its last part: a failed import is reported, but the call     *)
(* returns the decoded document when the rest of the text decodes.         *)
(* A failure is what makes the same call raise in strict mode.             *)
(***************************************************************************)
C8_Case == call # NoCall /\ ~call.options.strict

OwnFailure ==
    IF call.fn = "parseTSON" /\ ~existsSync(call.filePath)
    THEN <<"File not found: ">> \o call.filePath
    ELSE IF call.fn = "parseTSON" /\ ~Readable(call.filePath)
    THEN <<"Failed to read file: ">> \o ReadError.message
    ELSE IF ~JSONparse(FinalText(SourceText, SourceOptions)).ok
    THEN MsgParseError
         \o (IF SourceOptions.filePath # <<>> THEN <<" in ">> \o SourceOptions.filePath
             ELSE <<>>)
         \o <<": ">> \o SyntaxError.message
    ELSE <<>>

C9_Case == call.fn = "parseTSON" /\ call.options.strict

C9_StrictRaisesTSONParseError ==
    C9_Case =>
        /\ outcome.kind = "throw" => outcome.err.name = "TSONParseError"
        /\ Rerun(FALSE).log # <<>> => outcome.kind = "throw"
        /\ outcome.kind = "return" => outcome.log = <<>>
        /\ ~existsSync(call.filePath) =>
               /\ outcome.kind = "throw"
               /\ outcome.err.filePath = call.filePath
               /\ outcome.err.message = <<"File not found: ">> \o call.filePath

\* parseTSON('non-existent.tson', { strict: true }) of the test script
C9_Witness ==
    /\ C9_Case
    /\ call.filePath = PathRelative
    /\ outcome.kind = "throw"
    /\ outcome.err.name = "TSONParseError"
    /\ outcome.err.filePath = PathRelative

(***************************************************************************)
(* C10.  Forward-reference law: a constant's name used as a bare token on  *)
(* a line before its declaration line is left as identifier text, and the  *)
(* final decode of the document fails with the parse error: raised in      *)
(* strict mode, null in lenient mode.  (Names are identifiers: they start  *)
(* with a letter or '_' and are not true, false or null.)                  *)
(***************************************************************************)
IsIdentifier(name) ==
    /\ name # <<>>
    /\ Head(name) \in Letters \cup {"_"}
    /\ name \notin {LitTrue, LitFalse, LitNull}

\* in text, line i uses name as a bare value and the first declaration of
\* name is on the later line j
ForwardRef(text, i, j, name) ==
    /\ i < j
    /\ j <= Len(Lines(text))
    /\ DeclaresConst(Lines(text)[j], name)
    /\ IsIdentifier(name)
    /\ \A k \in 1..(j - 1) : ~DeclaresConst(Lines(text)[k], name)
    /\ ~MatchConst(Trim(Lines(text)[i])).ok
    /\ BareValueUse(Lines(text)[i], name)

ConstNames(text) ==
    {MatchConst(Trim(Lines(text)[j])).name : j \in {k \in 1..Len(Lines(text)) :
                                                        MatchConst(Trim(Lines(text)[k])).ok}}

HasForwardRef(text) ==
    \E i, j \in 1..Len(Lines(text)) : \E name \in ConstNames(text) :
        ForwardRef(text, i, j, name)

C10_Case ==
    /\ ParsesText
    /\ call.options.allowConst
    /\ \A i \in 1..Len(Lines(SourceText)) : ~IsImportLine(Lines(SourceText)[i])
    /\ HasForwardRef(removeComments(SourceText))

C10_ForwardReference ==
    C10_Case =>
        LET text == removeComments(SourceText)
            out == processConstDeclarations(text)
            msg == MsgParseError
                   \o (IF SourceOptions.filePath # <<>>
                       THEN <<" in ">> \o SourceOptions.filePath ELSE <<>>)
                   \o <<": ">> \o SyntaxError.message
        IN  /\ \A i, j \in 1..Len(Lines(text)) : \A name \in ConstNames(text) :
                   ForwardRef(text, i, j, name) => BareValueUse(Lines(out)[i], name)
            /\ call.options.strict =>
                   /\ outcome.kind = "throw"
                   /\ outcome.err.name = "TSONParseError"
                   /\ outcome.err.message = msg
            /\ ~call.options.strict => outcome = Return(NullV, <<msg>>)

\* the name is used before and after its declaration: the call still fails
C10_Witness ==
    /\ C10_Case
    /\ SourceText = DocForwardThenUse
    /\ call.options.strict
    /\ outcome.kind = "throw"

(***************************************************************************)
(* The passes applied one at a time.  removeComments, removeImports,       *)
(* processConstDeclarations and processTSONImports are functions of a text *)
(* (and, for the last, of the file system); each action applies one of     *)
(* them to a text drawn from a bounded family.                             *)
(***************************************************************************)
\* the number of pieces a generated text is made of
MaxPieces == 4

\* the pieces: quotes, an escaped quote, a backslash, a comment marker, a
\* blank and a line break
Pieces ==
    {<<"\"">>, <<"'">>, <<"\\", "\"">>, <<"\\">>, <<"/", "/">>, <<" ">>, <<"\n">>}

RECURSIVE Concat(_, _)
Concat(f, i) == IF i > Len(f) THEN <<>> ELSE f[i] \o Concat(f, i + 1)

PieceTexts == {Concat(f, 1) : f \in UNION {[1..n -> Pieces] : n \in 0..MaxPieces}}

\* { "u": "http://example.com" }
DocUrlLine ==
    <<"{", " ", "\"", "u", "\"", ":", " ", "\"", "h", "t", "t", "p", ":", "/", "/", "e", "x",
      "a", "m", "p", "l", "e", ".", "c", "o", "m", "\"", " ", "}">>

\* { 'u': 'a//b', "v": "it's//" } // c
DocQuotedSlashes ==
    <<"{", " ", "'", "u", "'", ":", " ", "'", "a", "/", "/", "b", "'", ",", " ", "\"", "v",
      "\"", ":", " ", "\"", "i", "t", "'", "s", "/", "/", "\"", " ", "}", " ", "/", "/", " ",
      "c">>

CommentTexts == PieceTexts \cup {DocUrlLine, DocQuotedSlashes, DocCommentLines, DocScenario}

\* texts with import lines (targets present, missing, failing, not .tson)
ImportTexts ==
    {DocImport, DocSpread, DocMiss, DocMissUnused, DocMid, DocTop, DocReadsDir,
     DocImportNl, DocForeignImport, DocJsonLines, DocTwoImports, DocImportBad}

\* texts with constant declarations
ConstTexts ==
    {DocConstSemi, DocConstNoSemi, DocConstSmall, DocConstString, DocBackward,
     DocForwardThenUse, DocConstNl, DocJsonLines}
    \cup ForwardDocs \cup SubstDocs \cup RedeclDocs

PassFileSystems == {CommonFiles, (PathBase :> File(BaseQuoted)) @@ CommonFiles}

PassCall(fn, text, options) ==
    [fn |-> fn, content |-> text, filePath |-> <<>>, options |-> options]

PassInit ==
    /\ fs \in PassFileSystems
    /\ call = NoCall
    /\ outcome = NoOutcome
    /\ Quiet

\* removeComments(text)
ApplyRemoveComments ==
    \E text \in CommentTexts :
        /\ call = NoCall
        /\ call' = PassCall("removeComments", text, Options(FALSE, Cwd))
        /\ outcome' = ReturnText(removeComments(text), <<>>)
        /\ UNCHANGED <<fs, frames, watchVars>>

\* removeImports(text)
ApplyRemoveImports ==
    \E text \in ImportTexts :
        /\ call = NoCall
        /\ call' = PassCall("removeImports", text, Options(FALSE, Cwd))
        /\ outcome' = ReturnText(removeImports(text), <<>>)
        /\ UNCHANGED <<fs, frames, watchVars>>

\* processConstDeclarations(text)
ApplyProcessConstDeclarations ==
    \E text \in ConstTexts :
        /\ call = NoCall
        /\ call' = PassCall("processConstDeclarations", text, Options(FALSE, Cwd))
        /\ outcome' = ReturnText(processConstDeclarations(text), <<>>)
        /\ UNCHANGED <<fs, frames, watchVars>>

\* processTSONImports(text, { baseDir, filePath, strict })
ApplyProcessTSONImports ==
    \E text \in ImportTexts, strict \in BOOLEAN :
        /\ call = NoCall
        /\ call' = PassCall("processTSONImports", text, Options(strict, DirD))
        /\ outcome' = processTSONImports(text, Options(strict, DirD), 0)
        /\ UNCHANGED <<fs, frames, watchVars>>

RECURSIVE Literals(_, _, _, _)
\* the string literals of a line as a reader of the format finds them, left
\* to right: a quote outside a string opens one, a backslash inside a string
\* escapes the character after it, the same quote closes it, and a `//`
\* outside a string starts a comment.  Yields the <<open, close>> indexes.
Literals(line, i, open, q) ==
    IF i > Len(line) THEN {}
    ELSE IF open = 0
    THEN IF line[i] \in Quotes THEN Literals(line, i + 1, i, line[i])
         ELSE IF line[i] = "/" /\ At(line, i + 1) = "/" THEN {}
         ELSE Literals(line, i + 1, 0, "")
    ELSE IF line[i] = "\\" THEN Literals(line, i + 2, open, q)
    ELSE IF line[i] = q THEN {<<open, i>>} \cup Literals(line, i + 1, 0, "")
    ELSE Literals(line, i + 1, open, q)

\* a `//` lies inside the literal
HoldsSlashes(line, lit) ==
    \E i \in (lit[1] + 1)..(lit[2] - 2) : line[i] = "/" /\ line[i + 1] = "/"

\* the line has no `//` outside its string literals
NoCommentOn(line) ==
    \A i \in 1..(Len(line) - 1) :
        (line[i] = "/" /\ line[i + 1] = "/")
            => \E lit \in Literals(line, 1, 0, "") : lit[1] < i /\ i + 1 < lit[2]

\* the caller has taken the result of the pass
PassFinish ==
    /\ call # NoCall
    /\ call' = NoCall
    /\ outcome' = NoOutcome
    /\ UNCHANGED <<fs, frames, watchVars>>

PassNext ==
    \/ ApplyRemoveComments
    \/ ApplyRemoveImports
    \/ ApplyProcessConstDeclarations
    \/ ApplyProcessTSONImports
    \/ PassFinish

PassSpec == PassInit /\ [][PassNext]_vars

(***************************************************************************)
(* C11.  String-safety of removeComments: on every line, a string literal  *)
(* that holds a `//` (opened by " or ' and closed by the same quote on     *)
(* that line) is kept whole, up to and including its closing quote; a line *)
(* such as { "u": "http://example.com" }, which has no `//` outside its    *)
(* strings and no trailing blank, comes out unchanged.                     *)
(***************************************************************************)
C11_Case ==
    /\ call.fn = "removeComments"
    /\ \E k \in 1..Len(Lines(call.content)) :
           \E lit \in Literals(Lines(call.content)[k], 1, 0, "") :
               HoldsSlashes(Lines(call.content)[k], lit)

C11_StringSafety ==
    call.fn = "removeComments" =>
        /\ Len(Lines(outcome.text)) = Len(Lines(call.content))
        /\ \A k \in 1..Len(Lines(call.content)) :
               LET line == Lines(call.content)[k]
                   out == Lines(outcome.text)[k]
               IN  /\ \A lit \in Literals(line, 1, 0, "") :
                          HoldsSlashes(line, lit)
                              => /\ Len(out) >= lit[2]
                                 /\ SubSeq(out, 1, lit[2]) = SubSeq(line, 1, lit[2])
                   /\ (NoCommentOn(line) /\ TrimEnd(line) = line) => out = line

\* a literal with an escaped quote before its `//` was kept, and the URL
\* line came out as it went in
C11_Witness ==
    /\ C11_Case
    /\ \/ /\ call.content = <<"\"", "\\", "\"", "/", "/", "\"">>
          /\ outcome.text = call.content
       \/ /\ call.content = DocUrlLine
          /\ outcome.text = DocUrlLine

(***************************************************************************)
(* C12.  Idempotence of removeComments: for every text t,                  *)
(* removeComments(removeComments(t)) = removeComments(t).                  *)
(***************************************************************************)
C12_Idempotent ==
    call.fn = "removeComments" => removeComments(outcome.text) = outcome.text

\* a text from which a comment and the blank before it were removed
C12_Witness ==
    /\ call.fn = "removeComments"
    /\ call.content = <<"\"", "\"", " ", "/", "/">>
    /\ outcome.text = <<"\"", "\"">>
    /\ removeComments(outcome.text) = outcome.text

(***************************************************************************)
(* C13.  Trailing comma law: for an object body or array body B, the       *)
(* document { B , } (resp. [ B , ]), the comma optionally followed by      *)
(* white space, decodes with default options to what { B } (resp. [ B ])   *)
(* decodes to: the same value, or a failure in both cases.                 *)
(***************************************************************************)
C13_Case ==
    /\ call.fn = "parseTSONString"
    /\ IsDefault(call.options)
    /\ call.content \in TrailingDocs

PassNames ==
    {"removeComments", "removeImports", "processConstDeclarations", "processTSONImports"}

\* the pass removes this line
Removed(fn, line) ==
    CASE fn = "removeComments" -> StartsWith(TrimStart(line), <<"/", "/">>)
      [] fn = "removeImports" -> StartsWith(Trim(line), KwImportSp)
      [] fn = "processConstDeclarations" -> MatchConst(Trim(line)).ok
      [] fn = "processTSONImports" -> IsImportLine(line)
      [] OTHER -> FALSE

C14_LineCount ==
    (call.fn \in PassNames /\ outcome.kind = "return") =>
        LET in == Lines(call.content)
            out == Lines(outcome.text)
        IN  /\ Len(out) = Len(in)
            /\ \A k \in 1..Len(in) :
                   /\ Removed(call.fn, in[k]) => out[k] = <<>>
                   /\ (call.fn = "removeImports" /\ ~Removed(call.fn, in[k])) => out[k] = in[k]

\* a constant whose string holds a line break was substituted on line 2,
\* and an import of such a value likewise
C14_Witness ==
    \/ /\ call.fn = "processConstDeclarations"
       /\ call.content = DocConstNl
       /\ Lines(outcome.text) = << <<>>, DocNl >>
    \/ /\ call.fn = "processTSONImports"
       /\ call.content = DocImportNl
       /\ Lines(outcome.text) = << <<>>, <<"[">> \o DocNl \o <<"]">> >>

(***************************************************************************)
(* C15.  (as claimed) An imported document is parsed with the feature      *)
(* flags of the importing call: a call of parseTSONString on               *)
(* `import x from "./base.tson";` / `{ "b": x }` yields { b: v } where v   *)
(* is what base.tson decodes to under the call's own five flags, and fails *)
(* when base.tson does not decode under them.                              *)
(* Refuted: with allowComments = false the comment of base.tson is still   *)
(* stripped and the call returns { b: { a: 1 } }.                          *)
(***************************************************************************)
C15_Case ==
    /\ call.fn = "parseTSONString"
    /\ call.content = DocImport
    /\ call.options.baseDir = DirD
    /\ call.options.allowTSONImports
    /\ existsSync(PathBase)

\* what the call yields when base.tson is parsed with targetOptions
C15_Yields(targetOptions) ==
    LET target == parseTSON(PathBase, targetOptions, 1)
    IN  IF target.kind = "return" /\ target.value # NullV
        THEN outcome = Return(ObjV(<<KeyB>>, <<target.value>>), <<>>)
        ELSE IF call.options.strict THEN outcome.kind = "throw"
        ELSE outcome.kind = "return" /\ outcome.value = NullV /\ outcome.log # <<>>

C15_Original == C15_Case => C15_Yields(call.options)

(***************************************************************************)
(* C15 (amended).  An imported document is parsed with all five feature    *)
(* flags enabled, whatever the flags of the importing call; only strict is *)
(* passed on, and the base directory is the directory of the imported      *)
(* file.                                                                   *)
(***************************************************************************)
C15_ImportAllFeatures == C15_Case => C15_Yields(Options(call.options.strict, Cwd))

\* the call had comments switched off and the comment of base.tson was
\* stripped all the same
C15_Witness ==
    /\ C15_Case
    /\ ~call.options.allowComments
    /\ fs[PathBase].data = BaseComment
    /\ outcome = Return(ObjV(<<KeyB>>, <<ObjA1>>), <<>>)

(***************************************************************************)
(* C16.  In lenient mode an import that fails (its target is missing, or   *)
(* its target fails to parse) binds nothing: the import line is blanked,   *)
(* the name is not substituted on any later line (it still stands there    *)
(* after import resolution), and a later bare use of the name makes the    *)
(* final decode fail: the call reports a parse error and returns null.     *)
(* The name is an identifier that no other import line and no constant     *)
(* declaration of the document binds.                                      *)
(***************************************************************************)
\* line i is an import whose target is missing or fails to parse
FailedImportAt(text, i) ==
    /\ i \in 1..Len(Lines(text))
    /\ IsImportLine(Lines(text)[i])
    /\ LET resolved == ResolvedImport(ImportPathAt(text, i))
       IN  \/ ~existsSync(resolved)
           \/ LET target == parseTSON(resolved, Options(FALSE, Cwd), 1)
              IN  target.value = NullV /\ target.log # <<>>

\* no other line of the text binds the name of the import on line i
OnlyBinding(text, i) ==
    /\ IsIdentifier(ImportNameAt(text, i))
    /\ \A j \in 1..Len(Lines(text)) :
           /\ ~DeclaresConst(Lines(text)[j], ImportNameAt(text, i))
           /\ (j # i /\ IsImportLine(Lines(text)[j]))
                  => ImportNameAt(text, j) # ImportNameAt(text, i)

\* the lines of the text after import resolution
Resolved(text, options) ==
    Lines(processTSONImports(text, [options EXCEPT !.strict = FALSE], 0).text)

C16_Case ==
    /\ ParsesText
    /\ ~call.options.strict
    /\ call.options.allowTSONImports
    /\ \E i \in 1..Len(Lines(SourceText)) :
           /\ FailedImportAt(SourceText, i)
           /\ OnlyBinding(SourceText, i)
           /\ \E j \in (i + 1)..Len(Lines(SourceText)) :
                  BareValueUse(Lines(SourceText)[j], ImportNameAt(SourceText, i))

C16_FailedImportBindsNothing ==
    (/\ ParsesText
     /\ ~call.options.strict
     /\ call.options.allowTSONImports)
    => \A i \in 1..Len(Lines(SourceText)) :
           (FailedImportAt(SourceText, i) /\ OnlyBinding(SourceText, i))
           => /\ Resolved(SourceText, SourceOptions)[i] = <<>>
              /\ \A j \in (i + 1)..Len(Lines(SourceText)) :
                     BareValueUse(Lines(SourceText)[j], ImportNameAt(SourceText, i))
                     => /\ \E p \in 1..Len(Resolved(SourceText, SourceOptions)[j]) :
                               WordAt(Resolved(SourceText, SourceOptions)[j],
                                      ImportNameAt(SourceText, i), p)
                        /\ outcome.kind = "return"
                        /\ outcome.value = NullV
                        /\ outcome.log # <<>>
                        /\ StartsWith(outcome.log[Len(outcome.log)], MsgParseError)

\* x was imported and substituted, y was not found and stayed on its line
C16_Witness ==
    /\ C16_Case
    /\ SourceText = DocTwoImports
    /\ BaseDecodesTo(ObjA1)
    /\ SourceOptions.baseDir = DirD
    /\ Len(outcome.log) = 2
    /\ outcome.value = NullV

\* the target of the import exists and fails to parse
C16_WitnessTargetFails ==
    /\ C16_Case
    /\ SourceText = DocImportBad
    /\ SourceOptions.baseDir = DirD
    /\ outcome.value = NullV

(***************************************************************************)
(* C17.  A document made of a `//` comment line followed by an object with *)
(* bare identifier keys, scalar values and one trailing comma before the   *)
(* closing brace decodes with default options to the object with exactly   *)
(* those keys and values: `// comment` / `{ host: "localhost", port: 5432, *)
(* }` gives { host: "localhost", port: 5432 }.  The scalar values are      *)
(* numbers, true, null and strings in which no word is followed by a colon *)
(* and no comma by a closing bracket.                                      *)
(***************************************************************************)
C17_Case ==
    /\ call.fn = "parseTSONString"
    /\ IsDefault(call.options)
    /\ call.content \in ScenarioDocs

C17_Scenario ==
    \A c \in ScenarioCases :
        (/\ call.fn = "parseTSONString"
         /\ IsDefault(call.options)
         /\ call.content = ScenarioDoc(c))
        => outcome = Return(ObjV(<<c.head.key1, c.head.key2>>, <<c.first.val, c.second.val>>),
                            <<>>)

\* the scenario itself
C17_Witness ==
    /\ C17_Case
    /\ call.content = DocScenario
    /\ outcome.value =
           ObjV(<<<<"h", "o", "s", "t">>, KeyPort>>,
                <<StrV(<<"l", "o", "c", "a", "l", "h", "o", "s", "t">>), NumV(5432)>>)

(***************************************************************************)
(* C18.  (as claimed) For a document with no comment, no const declaration *)
(* line and no import line, parseTSONString with default options yields    *)
(* what the strict decoder yields for the text after key quoting and       *)
(* trailing-comma removal only: the same value, or a failure in both       *)
(* cases.                                                                  *)
(* Refuted: { "a": 1 } followed by a form feed decodes to { a: 1 }, where  *)
(* the strict decoder rejects the form feed.                               *)
(***************************************************************************)
\* no comment, no declaration line, no import line
PlainDocument(text) ==
    \A k \in 1..Len(Lines(text)) :
        /\ NoCommentOn(Lines(text)[k])
        /\ ~MatchConst(Trim(Lines(text)[k])).ok
        /\ ~StartsWith(Trim(Lines(text)[k]), KwImportSp)

C18_Case ==
    /\ call.fn = "parseTSONString"
    /\ IsDefault(call.options)
    /\ PlainDocument(call.content)

\* the outcome is that of the strict decoder on text after syntax normalisation
C18_DecodesAs(text) ==
    LET direct == JSONparse(RemoveTrailingCommas(QuoteKeys(text)))
    IN  /\ outcome.kind = "return"
        /\ outcome.value = (IF direct.ok THEN direct.val ELSE NullV)
        /\ (outcome.log = <<>>) <=> direct.ok

C18_Original == C18_Case => C18_DecodesAs(call.content)

(***************************************************************************)
(* C18 (amended).  For such a document the outcome is that of the strict   *)
(* decoder on the text after removal of the white space at the end of      *)
(* every line, key quoting and trailing-comma removal: the import and      *)
(* constant stages do not affect the result, the comment stage affects it  *)
(* only by trimming the line ends.                                         *)
(***************************************************************************)
TrimLineEnds(text) ==
    Join([k \in 1..Len(Lines(text)) |-> TrimEnd(Lines(text)[k])], "\n")

C18_NormalizationOnly == C18_Case => C18_DecodesAs(TrimLineEnds(call.content))

\* the form feed at the end of the line was trimmed and the document decoded
C18_Witness ==
    /\ C18_Case
    /\ call.content = DocFormFeed
    /\ outcome = Return(ObjA1, <<>>)

(***************************************************************************)
(* C19.  A constant bound to v and used on a later line as a bare whole    *)
(* word in value position is replaced by exactly the JSON text of v, so    *)
(* that the value decoded at that position is v, for every v (strings      *)
(* holding `$`, or the name of another declared constant, included).       *)
(* Refuted: `const A = "$$"` / `[A]` decodes to ["$"]; with `const B = 1`  *)
(* declared after `const A = "x B"`, `[A]` decodes to ["x 1"].             *)
(***************************************************************************)
C19_SubstitutionExact ==
    \A c \in SubstCases :
        (/\ call.fn = "parseTSONString"
         /\ IsDefault(call.options)
         /\ call.content = SubstDoc(c))
        => outcome = Return(ArrV(<<c.val>>), <<>>)

(***************************************************************************)
(* C20.  Re-declaration shadows forward only: with `const P = v1` on line  *)
(* 1 and `const P = v2` on line 3, the reference on line 2 is replaced by  *)
(* v1 and the reference on line 4 by v2; the second declaration leaves     *)
(* line 2 as it was emitted, and the document decodes to [v1, v2].         *)
(***************************************************************************)
C20_Case ==
    /\ call.fn = "parseTSONString"
    /\ IsDefault(call.options)
    /\ call.content \in RedeclDocs

C20_ShadowsForward ==
    \A c \in RedeclCases :
        (/\ call.fn = "parseTSONString"
         /\ IsDefault(call.options)
         /\ call.content = RedeclDoc(c))
        => /\ Lines(processConstDeclarations(call.content)) =
                  << <<>>,
                     <<"[">> \o JSONstringify(c.first.val) \o <<",">>,
                     <<>>,
                     JSONstringify(c.second.val) \o <<"]">> >>
           /\ outcome = Return(ArrV(<<c.first.val, c.second.val>>), <<>>)

\* P was 1 on line 2 and "s" on line 4
C20_Witness ==
    /\ C20_Case
    /\ call.content = RedeclDoc([first |-> [src |-> <<"1">>, val |-> NumV(1)],
                                 second |-> [src |-> <<"\"", "s", "\"">>,
                                             val |-> StrV(<<"s">>)]])
    /\ outcome.value = ArrV(<<NumV(1), StrV(<<"s">>)>>)

(***************************************************************************)
(* C21.  A file that imports itself, directly or through other files, is   *)
(* not detected: every import of a file that is already being parsed       *)
(* starts a further nested parse, so the chain of nested parse calls is as *)
(* long as the host allows, and the top-level call ends only with the      *)
(* host's stack-limit error, which strict mode hands to the caller wrapped *)
(* once per nested call and lenient mode logs before returning null.       *)
(***************************************************************************)
C21_Case ==
    /\ call # NoCall
    /\ call.options.allowTSONImports
    /\ call.fn = "parseTSON" => existsSync(call.filePath) /\ Readable(call.filePath)
    /\ Revisits(FirstImport(SourceText, SourceOptions.baseDir), {})

C21_CycleRunsToHostLimit ==
    C21_Case =>
        IF call.options.strict
        THEN /\ outcome.kind = "throw"
             /\ Origin(outcome.err) = RangeError
             /\ WrapCount(outcome.err) = MaxDepth + 1
        ELSE /\ outcome.kind = "return"
             /\ outcome.value = NullV
             /\ Len(outcome.log) > MaxDepth
             /\ StartsWith(outcome.log[1], MsgFailedImport)
             /\ EndsWith(outcome.log[1], RangeError.message)

\* strict parse of ping.tson, which imports pong.tson, which imports ping.tson
C21_Witness ==
    /\ C21_Case
    /\ call.fn = "parseTSON"
    /\ call.filePath = PathPing
    /\ call.options.strict
    /\ outcome.kind = "throw"
    /\ WrapCount(outcome.err) = MaxDepth + 1

(***************************************************************************)
(* C22.  Trailing-comma removal never changes text inside a string         *)
(* literal: a document that is valid JSON, and that key quoting leaves as  *)
(* it is, decodes to the value written, also when one of its strings holds *)
(* a comma followed by optional white space and a closing brace or bracket.*)
(***************************************************************************)
C22_Case ==
    /\ call.fn = "parseTSONString"
    /\ IsDefault(call.options)
    /\ JSONparse(call.content).ok
    /\ QuoteKeys(call.content) = call.content

C22_StringsIntact ==
    C22_Case =>
        /\ outcome.kind = "return"
        /\ outcome.value = JSONparse(call.content).val

(***************************************************************************)
(* C23.  Key quoting is applied on every parse, whatever the feature flags *)
(* are, to every run of word characters followed by optional white space   *)
(* and a colon, also inside string values: a document with a bare key      *)
(* decodes with every flag switched off; a valid JSON document one of      *)
(* whose strings holds such a run is not decoded to the value written; and *)
(* a serialized document whose strings hold no colon, all of whose keys    *)
(* are double-quoted, is left unchanged.                                   *)
(***************************************************************************)
\* some key or string value of v holds a colon
RECURSIVE HasColon(_)
HasColon(v) ==
    \/ v.t = "str" /\ \E i \in DOMAIN v.s : v.s[i] = ":"
    \/ \E k \in DOMAIN v.keys : \E i \in DOMAIN v.keys[k] : v.keys[k][i] = ":"
    \/ \E k \in DOMAIN v.kids : HasColon(v.kids[k])

\* s holds a word character followed by optional white space and a colon
WordColonIn(s) == \E i \in DOMAIN s : IsWord(s[i]) /\ At(s, SkipWs(s, i + 1)) = ":"

\* some key or string value of v holds such a run
RECURSIVE HasWordColon(_)
HasWordColon(v) ==
    \/ v.t = "str" /\ WordColonIn(v.s)
    \/ \E k \in DOMAIN v.keys : WordColonIn(v.keys[k])
    \/ \E k \in DOMAIN v.kids : HasWordColon(v.kids[k])

\* valid JSON with a word-colon run in one of its strings
C23_Case ==
    /\ call.fn = "parseTSONString"
    /\ JSONparse(call.content).ok
    /\ HasWordColon(JSONparse(call.content).val)

C23_WitnessBareKey ==
    /\ call.fn = "parseTSONString"
    /\ call.content = DocBareKey
    /\ ~call.options.allowTrailingCommas /\ ~call.options.allowComments
    /\ ~call.options.allowConst /\ ~call.options.allowImports
    /\ ~call.options.allowTSONImports
    /\ outcome = Return(ObjA1, <<>>)

(***************************************************************************)
(* C24.  Within one line a quote character closes the open string literal  *)
(* if and only if it is of the kind that opened it and an even number      *)
(* (zero included) of consecutive backslashes stands before it; the        *)
(* comment pass cuts each line at the first `//` that lies outside the     *)
(* literals so delimited.  So `//` after an escaped quote inside a string  *)
(* is kept, and `//` after a string that ends in an escaped backslash is   *)
(* removed.                                                                *)
(***************************************************************************)
\* the number of consecutive backslashes that stand before index i
BackslashesBefore(line, i) ==
    CHOOSE k \in 0..(i - 1) :
        /\ \A j \in (i - k)..(i - 1) : line[j] = "\\"
        /\ k = i - 1 \/ line[i - k - 1] # "\\"

\* the quote character of the literal that is open before index i, "" if none
RECURSIVE OpenQuote(_, _)
OpenQuote(line, i) ==
    IF i <= 1 THEN ""
    ELSE LET q == OpenQuote(line, i - 1)
             c == line[i - 1]
         IN  IF q = "" THEN (IF c \in Quotes THEN c ELSE "")
             ELSE IF c = q /\ BackslashesBefore(line, i - 1) % 2 = 0 THEN ""
             ELSE q

CommentStarts(line) ==
    {i \in 1..(Len(line) - 1) : line[i] = "/" /\ line[i + 1] = "/" /\ OpenQuote(line, i) = ""}

WithoutComment(line) ==
    IF CommentStarts(line) = {} THEN TrimEnd(line)
    ELSE LET i == CHOOSE k \in CommentStarts(line) : \A j \in CommentStarts(line) : k <= j
         IN  TrimEnd(SubSeq(line, 1, i - 1))

C24_Case ==
    /\ call.fn = "removeComments"
    /\ \E k \in 1..Len(Lines(call.content)) :
           LET line == Lines(call.content)[k]
           IN  \E i \in 2..Len(line) :
                   /\ line[i] \in Quotes
                   /\ OpenQuote(line, i) # ""
                   /\ line[i - 1] = "\\" \/ line[i] # OpenQuote(line, i)

C24_QuoteParity ==
    call.fn = "removeComments" =>
        /\ Len(Lines(outcome.text)) = Len(Lines(call.content))
        /\ \A k \in 1..Len(Lines(call.content)) :
               Lines(outcome.text)[k] = WithoutComment(Lines(call.content)[k])

\* "\\"// : the quote after two backslashes closes the string, the `//` goes
C24_Witness ==
    /\ C24_Case
    /\ call.content = <<"\"", "\\", "\\", "\"", "/", "/">>
    /\ outcome.text = <<"\"", "\\", "\\", "\"">>

\* "\"//" : the quote after one backslash does not close the string, the `//` stays
C24_WitnessEscapedQuote ==
    /\ C24_Case
    /\ call.content = <<"\"", "\\", "\"", "/", "/", "\"">>
    /\ outcome.text = call.content

\* "'//" : a quote of the other kind does not close the string
C24_WitnessOtherKind ==
    /\ C24_Case
    /\ call.content = <<"\"", "'", "/", "/", "\"">>
    /\ outcome.text = call.content

(***************************************************************************)
(* C25.  Bindings are private to the parse of one document.  A name that   *)
(* an imported document declares (constant or import name) and that the    *)
(* importing document uses without declaring it is not substituted there:  *)
(* the name reaches the decoder, which rejects it.  A name that the        *)
(* importing document, or another document it imports, declares and that   *)
(* an imported document uses without declaring it is not substituted in    *)
(* the imported document: that document fails to parse on its own.         *)
(***************************************************************************)
AllFlags(o) ==
    /\ o.allowTrailingCommas /\ o.allowComments /\ o.allowConst
    /\ o.allowImports /\ o.allowTSONImports

ImportLines(text) == {i \in 1..Len(Lines(text)) : IsImportLine(Lines(text)[i])}

\* the names text binds, by const lines and by import lines
DeclaredNames(text) == ConstNames(text) \cup {ImportNameAt(text, i) : i \in ImportLines(text)}

\* text uses name as a bare value on a line that is no declaration, and binds it nowhere
UndeclaredUse(text, name) ==
    /\ IsIdentifier(name)
    /\ name \notin DeclaredNames(text)
    /\ \E j \in 1..Len(Lines(text)) :
           /\ ~IsImportLine(Lines(text)[j])
           /\ ~MatchConst(Trim(Lines(text)[j])).ok
           /\ BareValueUse(Lines(text)[j], name)

\* the file the import on line i of the call's document names
Target(i) == ResolvedImport(ImportPathAt(SourceText, i))

Present(resolvedPath) == existsSync(resolvedPath) /\ Readable(resolvedPath)

\* the names the document imported on line i declares
TargetNames(i) ==
    IF Present(Target(i)) THEN DeclaredNames(readFileSync(Target(i))) ELSE {}

\* the names the documents imported on lines other than i declare
SiblingNames(i) == UNION {TargetNames(j) : j \in ImportLines(SourceText) \ {i}}

\* the document uses a name that only a document it imports declares
LeakUpCase(i, name) ==
    /\ i \in ImportLines(SourceText)
    /\ Present(Target(i))
    /\ name \in TargetNames(i)
    /\ UndeclaredUse(SourceText, name)

\* the document imported on line i, the first import to fail, uses a name that
\* only its importer or a sibling declares
LeakDownCase(i, name) ==
    /\ i \in ImportLines(SourceText)
    /\ Present(Target(i))
    /\ name \in DeclaredNames(SourceText) \cup SiblingNames(i)
    /\ UndeclaredUse(readFileSync(Target(i)), name)
    /\ \A j \in ImportLines(SourceText) : j < i => ~FailedImportAt(SourceText, j)

C25_Scope == ParsesText /\ AllFlags(call.options)

C25_Case ==
    /\ C25_Scope
    /\ \E i \in ImportLines(SourceText) :
           \/ \E name \in TargetNames(i) : LeakUpCase(i, name)
           \/ \E name \in DeclaredNames(SourceText) \cup SiblingNames(i) : LeakDownCase(i, name)

C25_BindingsPrivate ==
    C25_Scope =>
        \A i \in ImportLines(SourceText) :
            /\ \A name \in TargetNames(i) :
                   LeakUpCase(i, name) =>
                       IF call.options.strict THEN outcome.kind = "throw"
                       ELSE /\ outcome.kind = "return"
                            /\ outcome.value = NullV
                            /\ outcome.log # <<>>
                            /\ StartsWith(outcome.log[Len(outcome.log)], MsgParseError)
            /\ \A name \in DeclaredNames(SourceText) \cup SiblingNames(i) :
                   LeakDownCase(i, name) =>
                       IF call.options.strict
                       THEN /\ outcome.kind = "throw"
                            /\ Origin(outcome.err).filePath = Target(i)
                            /\ StartsWith(Origin(outcome.err).message, MsgParseError)
                       ELSE \E k \in 1..Len(outcome.log) :
                                StartsWith(outcome.log[k], MsgParseError \o <<" in ">> \o Target(i))

\* [x, B] with B declared only by the imported declb.tson: x is replaced, B is not
C25_Witness ==
    /\ C25_Case
    /\ call.content = DocLeakUp
    /\ LeakUpCase(1, <<"B">>)
    /\ ~call.options.strict
    /\ outcome.value = NullV
    /\ Resolved(SourceText, SourceOptions)[2] = <<"[", "[", "2", "]", ",", " ", "B", "]">>

\* usesb.tson uses B, which its importer declares: the import fails, the importer
\* decodes with its own B
C25_WitnessDown ==
    /\ C25_Case
    /\ call.content = DocLeakDown
    /\ LeakDownCase(1, <<"B">>)
    /\ ~call.options.strict
    /\ outcome.value = ArrV(<<NumV(1)>>)
    /\ outcome.log # <<>>

\* usesx.tson uses x, the name under which its importer imported a sibling
C25_WitnessSibling ==
    /\ C25_Case
    /\ call.content = DocSiblingName
    /\ LeakDownCase(2, <<"x">>)
    /\ ~call.options.strict
    /\ outcome.value = ArrV(<<ArrV(<<NumV(2)>>)>>)

(***************************************************************************)
(* C26.  A relative import path is resolved against the directory of the   *)
(* importing file, which for parseTSON replaces the base directory the     *)
(* caller supplied, or against the caller's base directory for string      *)
(* input; an import inside an imported file is resolved against the        *)
(* directory of that imported file, not against the directory of the       *)
(* top-level document.                                                     *)
(***************************************************************************)
\* importPath is ./ followed by segments none of which starts with a dot
SimpleRelative(importPath) ==
    /\ StartsWith(importPath, <<".", "/">>)
    /\ \A i \in 3..Len(importPath) : importPath[i] = "." => importPath[i - 1] # "/"

\* the file importPath names when taken relative to dir
Under(dir, importPath) == dir \o <<"/">> \o SubSeq(importPath, 3, Len(importPath))

\* the directory that holds the file at the absolute path p
DirOf(p) == SubSeq(p, 1, (CHOOSE k \in 1..Len(p) : p[k] = "/" /\ \A j \in (k + 1)..Len(p) : p[j] # "/") - 1)

\* the directory the imports of the call's document are relative to
ImportingDir ==
    IF call.fn = "parseTSON" THEN DirOf(call.filePath) ELSE call.options.baseDir

NotFoundMsg(importPath, resolvedPath) ==
    <<"TSON import file not found: \"">> \o importPath \o <<"\" (resolved to: ">>
    \o resolvedPath \o <<")">>

\* the call reports m: as the originating error in strict mode, in the log otherwise
Reports(m) ==
    IF call.options.strict
    THEN outcome.kind = "throw" /\ Origin(outcome.err).message = m
    ELSE \E k \in 1..Len(outcome.log) : outcome.log[k] = m

\* line i is an import with a simple relative path, and no import before it fails
FirstToFail(i) ==
    /\ i \in ImportLines(SourceText)
    /\ SimpleRelative(ImportPathAt(SourceText, i))
    /\ \A j \in ImportLines(SourceText) : j < i => ~FailedImportAt(SourceText, j)

\* the first import line of the text, 0 if it has none
FirstImportLine(text) ==
    IF ImportLines(text) = {} THEN 0
    ELSE CHOOSE i \in ImportLines(text) : \A j \in ImportLines(text) : i <= j

\* what parsing the file on its own gives
Alone(resolvedPath) == parseTSON(resolvedPath, Options(FALSE, Cwd), 1)

Succeeds(r) == r.kind = "return" /\ r.value # NullV /\ r.log = <<>>

\* the import at line first of the file at resolvedPath is looked up in that file's directory
NestedImportBase(resolvedPath, first) ==
    LET nested == readFileSync(resolvedPath)
        importPath == ImportPathAt(nested, first)
        expected == Under(DirOf(resolvedPath), importPath)
    IN  SimpleRelative(importPath) =>
            /\ ~existsSync(expected) => Reports(NotFoundMsg(importPath, expected))
            /\ (Present(expected) /\ Succeeds(Alone(expected)) /\ Succeeds(Alone(resolvedPath))) =>
                   Contains(JSONstringify(Alone(resolvedPath).value),
                            JSONstringify(Alone(expected).value))

C26_Scope == ParsesText /\ AllFlags(call.options)

C26_Case ==
    /\ C26_Scope
    /\ \E i \in ImportLines(SourceText) : FirstToFail(i)
    /\ call.fn = "parseTSON" => call.options.baseDir # ImportingDir

C26_WitnessNestedMissing ==
    /\ C26_Case
    /\ call.fn = "parseTSON"
    /\ call.filePath = PathOuterMiss
    /\ existsSync(PathMain)
    /\ Reports(NotFoundMsg(<<".", "/", "m", "a", "i", "n", ".", "t", "s", "o", "n">>,
                           <<"/", "d", "/", "s", "u", "b", "/", "m", "a", "i", "n", ".", "t", "s",
                             "o", "n">>))

\* string input with baseDir '/w': ./base.tson is looked up in /w, not in /d
C26_WitnessString ==
    /\ C26_Case
    /\ call.fn = "parseTSONString"
    /\ call.content = DocImport
    /\ call.options.baseDir = Cwd
    /\ existsSync(PathBase)
    /\ Reports(NotFoundMsg(<<".", "/", "b", "a", "s", "e", ".", "t", "s", "o", "n">>,
                           <<"/", "w", "/", "b", "a", "s", "e", ".", "t", "s", "o", "n">>))

(***************************************************************************)
(* C27.  When the strict decoder rejects a document, the TSONParseError    *)
(* that reaches the caller carries the position of the failure: its line   *)
(* and column fields are set, in addition to the file path.                *)
(***************************************************************************)
C27_Case ==
    /\ call # NoCall
    /\ call.options.strict
    /\ outcome.kind = "throw"
    /\ outcome.err.cause = <<>>
    /\ StartsWith(outcome.err.message, MsgParseError)

C27_ErrorCarriesPosition ==
    C27_Case =>
        /\ outcome.err.name = "TSONParseError"
        /\ outcome.err.filePath = call.filePath
        /\ outcome.err.line # <<>>
        /\ outcome.err.column # <<>>

(***************************************************************************)
(* C29.  In lenient mode a null result always means failure: a call        *)
(* returns null only if some stage failed (and wrote a diagnostic), so the *)
(* same call in strict mode raises; a document that is decoded             *)
(* successfully never yields null.                                         *)
(***************************************************************************)
C29_Case ==
    /\ call # NoCall
    /\ ~call.options.strict
    /\ outcome.kind = "return"
    /\ outcome.value = NullV

C29_NullMeansFailure ==
    C29_Case =>
        /\ outcome.log # <<>>
        /\ Rerun(TRUE).kind = "throw"

(***************************************************************************)
(* Import resolution, one step at a time.  A frame is a parseTSON call     *)
(* whose import pass (tson.ts:153-221) stands at line i of its document;   *)
(* an import line whose target exists starts a nested call, and the        *)
(* importing call waits until the nested call has left.  The files do not  *)
(* change while the synchronous call runs, so what each call will find on  *)
(* each line is fixed when the top-level call starts: the call record      *)
(* holds it (plan), together with the outcome parseTSON yields (result).   *)
(***************************************************************************)
\* the files the file at resolvedPath imports
ImportEdges(resolvedPath) ==
    IF ~Present(resolvedPath) THEN {}
    ELSE LET lines == Lines(readFileSync(resolvedPath))
         IN  {LET importPath == MatchTSONImport(Trim(lines[i])).importPath
              IN  IF IsAbsolute(importPath) THEN importPath
                  ELSE PathResolve(Dirname(resolvedPath), importPath) :
                  i \in {k \in 1..Len(lines) : MatchTSONImport(Trim(lines[k])).ok}}

\* the files reached from the files of S by following imports
RECURSIVE ReachFrom(_)
ReachFrom(S) ==
    IF UNION {ImportEdges(p) : p \in S} \subseteq S THEN S
    ELSE ReachFrom(S \cup UNION {ImportEdges(p) : p \in S})

\* no file reached from resolvedPath is reached from its own imports
AcyclicFrom(resolvedPath) ==
    \A q \in ReachFrom({resolvedPath}) : q \notin ReachFrom(ImportEdges(q))

\* what the import pass finds on one line: whether it is an import statement, the
\* file it resolves to, and whether that file exists and can be read
LinePlan(line, baseDir) ==
    LET tsonImportMatch == MatchTSONImport(Trim(line))
        resolvedPath == IF IsAbsolute(tsonImportMatch.importPath)
                        THEN tsonImportMatch.importPath
                        ELSE PathResolve(baseDir, tsonImportMatch.importPath)
    IN  IF ~tsonImportMatch.ok
        THEN [ok |-> FALSE, resolvedPath |-> <<>>, exists |-> FALSE, readable |-> FALSE]
        ELSE [ok |-> TRUE, resolvedPath |-> resolvedPath,
              exists |-> existsSync(resolvedPath),
              readable |-> existsSync(resolvedPath) /\ Readable(resolvedPath)]

\* what a parseTSON call of the readable file finds: its lines, and whether it throws
\* once its imports are resolved
FilePlan(filePath, strict) ==
    [lines |-> [i \in 1..Len(Lines(readFileSync(filePath))) |->
                    LinePlan(Lines(readFileSync(filePath))[i], Dirname(filePath))],
     throws |-> parseTSON(filePath, Options(strict, Cwd), 0).kind = "throw"]

Plan(filePath, strict) ==
    [p \in {q \in ReachFrom({filePath}) : Present(q)} |-> FilePlan(p, strict)]

Top == frames[Len(frames)]

\* the line the innermost call stands at
TopLine == call.plan[Top.filePath].lines[Top.i]

TopLen == Len(call.plan[Top.filePath].lines)

\* the innermost call goes on to its next line
Advance == frames' = [frames EXCEPT ![Len(frames)].i = @ + 1]

\* an error thrown in strict mode is rethrown by every pending call (tson.ts:200-203)
Abort ==
    /\ frames' = <<>>
    /\ outcome' = call.result

\* parseTSON(filePath, { strict }) is called (tson.ts:71-90)
ResolveCall ==
    \E filePath \in Paths, strict \in BOOLEAN :
        /\ call = NoCall
        /\ call' = [fn |-> "parseTSON", content |-> <<>>, filePath |-> filePath,
                    options |-> Options(strict, Cwd), deepest |-> 1,
                    plan |-> Plan(filePath, strict),
                    result |-> parseTSON(filePath, Options(strict, Cwd), 0)]
        /\ IF existsSync(filePath) /\ Readable(filePath)
           THEN /\ frames' = <<[filePath |-> filePath, i |-> 1]>>
                /\ outcome' = NoOutcome
           ELSE /\ frames' = <<>>
                /\ outcome' = parseTSON(filePath, Options(strict, Cwd), 0)
        /\ UNCHANGED <<fs, watchVars>>

\* a line that is no import statement (tson.ts:209-217)
SkipLine ==
    /\ frames # <<>>
    /\ Top.i <= TopLen
    /\ ~TopLine.ok
    /\ Advance
    /\ UNCHANGED <<fs, call, outcome, watchVars>>

\* an import whose target does not exist (tson.ts:173-182)
ImportMissing ==
    /\ frames # <<>>
    /\ Top.i <= TopLen
    /\ TopLine.ok
    /\ ~TopLine.exists
    /\ IF call.options.strict THEN Abort ELSE Advance /\ UNCHANGED outcome
    /\ UNCHANGED <<fs, call, watchVars>>

\* an import whose target exists: the nested parseTSON call (tson.ts:185-193); the call
\* fails at once when the file cannot be read or the host's stack is exhausted
ImportEnter ==
    /\ frames # <<>>
    /\ Top.i <= TopLen
    /\ TopLine.ok
    /\ TopLine.exists
    /\ IF Len(frames) > MaxDepth \/ ~TopLine.readable
       THEN /\ IF call.options.strict THEN Abort ELSE Advance /\ UNCHANGED outcome
            /\ UNCHANGED call
       ELSE /\ frames' = Append(frames, [filePath |-> TopLine.resolvedPath, i |-> 1])
            /\ call' = [call EXCEPT !.deepest = IF Len(frames) + 1 > @ THEN Len(frames) + 1
                                                 ELSE @]
            /\ UNCHANGED outcome
    /\ UNCHANGED <<fs, watchVars>>

\* faulty variant: the call that has passed its last line stays pending
LeaveNever ==
    /\ frames # <<>>
    /\ Top.i > TopLen
    /\ UNCHANGED vars

\* the innermost call has passed its last line: it decodes and returns or throws
\* (tson.ts:118-147), and its importer binds the value and goes on (tson.ts:195-199)
Leave ==
    /\ frames # <<>>
    /\ Top.i > TopLen
    /\ IF Len(frames) = 1 \/ call.plan[Top.filePath].throws THEN Abort
       ELSE /\ frames' = [SubSeq(frames, 1, Len(frames) - 1)
                              EXCEPT ![Len(frames) - 1].i = @ + 1]
            /\ UNCHANGED outcome
    /\ UNCHANGED <<fs, call, watchVars>>

\* the caller has taken the outcome
ResolveFinish ==
    /\ call # NoCall
    /\ frames = <<>>
    /\ call' = NoCall
    /\ outcome' = NoOutcome
    /\ UNCHANGED <<fs, frames, watchVars>>

\* the steps of a call that is under way; the call is synchronous, so a step that can
\* be taken is taken
ResolveStep == SkipLine \/ ImportMissing \/ ImportEnter \/ Leave

ResolveNext == ResolveCall \/ ResolveStep \/ ResolveFinish

ResolveSpec == Init /\ [][ResolveNext]_vars /\ WF_vars(ResolveStep)

(***************************************************************************)
(* C28.  For an acyclic import graph a top-level parse call terminates:    *)
(* every pending import resolution is left, and the call ends by returning *)
(* a value, returning null, or raising a TSONParseError.                   *)
(***************************************************************************)
C28_Started == call.fn = "parseTSON" /\ AcyclicFrom(call.filePath)

C28_Ended ==
    /\ call.fn = "parseTSON"
    /\ frames = <<>>
    /\ outcome.kind \in {"return", "throw"}
    /\ outcome.kind = "throw" => Origin(outcome.err).name = "TSONParseError"

C28_Terminates == C28_Started ~> C28_Ended

\* top.tson imports mid.tson, which imports bad.tson: the call ended, in lenient
\* mode, after three calls had been pending at once
C28_Witness ==
    /\ C28_Started
    /\ C28_Ended
    /\ call.filePath = PathTop
    /\ call.deepest = 3
    /\ ~call.options.strict
    /\ outcome.value = NullV

(***************************************************************************)
(* Compilation and watching (tson.ts:411-460, 501-527).  watchTSONFile     *)
(* compiles once, registers its compile callback with fs.watchFile and     *)
(* returns the function that unregisters it.  The callback is synchronous: *)
(* the host runs no other callback between its first and its last          *)
(* statement, while the files may be changed from outside at any time.     *)
(***************************************************************************)
\* /d/w.tson
PathWatched ==
    <<"/", "d", "/", "w", ".", "t", "s", "o", "n">>

\* /d/w.json
PathCompiled ==
    <<"/", "d", "/", "w", ".", "j", "s", "o", "n">>

\* the number of compile attempts of one watchTSONFile call that are followed
MaxAttempts == 3

\* path.basename(p): what follows the last slash
Basename(p) == From(p, LastIndexOf(p, "/", Len(p)) + 1)

\* path.extname(p): from the last dot of the base name on, if that dot is not its
\* first character
Extname(p) ==
    LET base == Basename(p)
        k == LastIndexOf(base, ".", Len(base))
    IN  IF k <= 1 THEN <<>> ELSE From(base, k)

\* path.join(outputDir, inputName + '.json') with outputDir = path.dirname(inputPath)
OutputPath(inputPath) ==
    LET base == Basename(inputPath)
        inputName == SubSeq(base, 1, Len(base) - Len(Extname(inputPath)))
    IN  NormalizeAbs(PathResolve(Cwd, Dirname(inputPath) \o <<"/">> \o inputName
                                      \o <<".", "j", "s", "o", "n">>))

\* what compileTSONToJSON does once the strict parse has ended as parsed
Compiled(inputPath, parsed) ==
    IF parsed.kind = "throw" THEN [kind |-> "throw", err |-> parsed.err, outputPath |-> <<>>,
                                   jsonContent |-> <<>>]
    ELSE IF parsed.value = NullV
    THEN [kind |-> "throw",
          err |-> TSONParseError(<<"Failed to parse TSON file: ">> \o inputPath, <<>>),
          outputPath |-> <<>>, jsonContent |-> <<>>]
    ELSE [kind |-> "return", err |-> NoError, outputPath |-> OutputPath(inputPath),
          jsonContent |-> JSONstringify(parsed.value)]

\* compileTSONToJSON(inputPath, { minify: true }), tson.ts:411-460: the path and the
\* content of the file it writes, or the error it throws
compileTSONToJSON(inputPath) == Compiled(inputPath, parseTSON(inputPath, Options(TRUE, Cwd), 0))

\* what the watched file may hold
WatchContents == {DocJson, DocBad, DocJsonNull, BaseBare}

WatchPaths == {PathWatched, PathAbsent}

WatchInit ==
    /\ fs \in {(PathWatched :> File(c)) @@ CommonFiles : c \in WatchContents}
    /\ call = NoCall
    /\ outcome = NoOutcome
    /\ Quiet

\* watchTSONFile(inputPath, { minify: true }) is called: isCompiling = false, then
\* compile() (tson.ts:501-502, 519)
WatchCall ==
    \E inputPath \in WatchPaths :
        /\ call = NoCall
        /\ call' = [fn |-> "watchTSONFile", content |-> <<>>, filePath |-> inputPath,
                    options |-> Options(TRUE, Cwd)]
        /\ isCompiling' = FALSE
        /\ pc' = "enter"
        /\ UNCHANGED <<fs, outcome, frames, watching, pending, console, attempts>>

\* compile: if (isCompiling) return; isCompiling = true (tson.ts:504-506)
CompileBegin ==
    /\ pc = "enter"
    /\ IF isCompiling
       THEN /\ pc' = IF watching THEN "idle" ELSE "register"
            /\ UNCHANGED <<isCompiling, attempts>>
       ELSE /\ isCompiling' = TRUE
            /\ pc' = "compiling"
            /\ attempts' = attempts + 1
    /\ UNCHANGED <<fs, call, outcome, frames, watching, pending, console>>

\* what the try and catch blocks of compile do with the result of
\* compileTSONToJSON (tson.ts:508-513)
Logged(r) ==
    /\ IF r.kind = "return"
       THEN /\ fs' = (r.outputPath :> File(r.jsonContent)) @@ fs
            /\ console' = Append(console, <<"Compiled ">> \o call.filePath \o <<" -> ">>
                                          \o r.outputPath)
       ELSE /\ fs' = fs
            /\ console' = Append(console, <<"Failed to compile ">> \o call.filePath
                                          \o <<":", " ">> \o getErrorMessage(r.err))
    /\ pc' = IF watching THEN "idle" ELSE "register"

\* faulty variant: the flag is reset at the end of the try block, not in a finally block
CompileEndNoFinally ==
    /\ pc = "compiling"
    /\ Logged(compileTSONToJSON(call.filePath))
    /\ isCompiling' = (compileTSONToJSON(call.filePath).kind = "throw")
    /\ UNCHANGED <<call, outcome, frames, watching, pending, attempts>>

\* compile: try { compileTSONToJSON; console.log } catch { console.error }
\* finally { isCompiling = false } (tson.ts:508-516)
CompileEnd ==
    /\ pc = "compiling"
    /\ Logged(compileTSONToJSON(call.filePath))
    /\ isCompiling' = FALSE
    /\ UNCHANGED <<call, outcome, frames, watching, pending, attempts>>

\* fs.watchFile(inputPath, { interval: 1000 }, compile); the stop function is returned
\* (tson.ts:522-526)
Register ==
    /\ pc = "register"
    /\ watching' = TRUE
    /\ pc' = "idle"
    /\ outcome' = Return(NullV, <<>>)
    /\ UNCHANGED <<fs, call, frames, isCompiling, pending, console, attempts>>

\* the watched file is written from outside; a registered watcher will see at its
\* next poll that the file changed
Change ==
    \E c \in WatchContents :
        /\ call.fn = "watchTSONFile"
        /\ attempts < MaxAttempts
        /\ fs' = (call.filePath :> File(c)) @@ fs
        /\ fs' # fs
        /\ pending' = (watching \/ pending)
        /\ UNCHANGED <<call, outcome, frames, isCompiling, pc, watching, console, attempts>>

\* the poll of fs.watchFile finds the file changed and invokes compile
Notify ==
    /\ watching
    /\ pending
    /\ pc = "idle"
    /\ pending' = FALSE
    /\ pc' = "enter"
    /\ UNCHANGED <<fs, call, outcome, frames, isCompiling, watching, console, attempts>>

\* the stop function: fs.unwatchFile(inputPath, compile) (tson.ts:524-526)
Stop ==
    /\ watching
    /\ pc = "idle"
    /\ call' = NoCall
    /\ outcome' = NoOutcome
    /\ watching' = FALSE
    /\ pending' = FALSE
    /\ console' = <<>>
    /\ attempts' = 0
    /\ UNCHANGED <<fs, frames, isCompiling, pc>>

\* the statements of watchTSONFile and of its callback
CompileStep == CompileBegin \/ CompileEnd \/ Register

WatchNext == WatchCall \/ CompileStep \/ Change \/ Notify \/ Stop

WatchSpec == WatchInit /\ [][WatchNext]_vars

(***************************************************************************)
(* C30.  In watchTSONFile the guard isCompiling is false whenever no       *)
(* compile attempt is executing: every attempt, successful or failed, ends *)
(* with the flag reset; a failure is logged and does not end the watcher   *)
(* or reach its caller; and every change notification that arrives before  *)
(* the stop function is called starts a new compile attempt.               *)
(***************************************************************************)
\* the last line written says that the attempt failed
LastFailed ==
    /\ console # <<>>
    /\ StartsWith(console[Len(console)], <<"Failed to compile ">> \o call.filePath)

C30_FlagFalseOutsideAttempt == pc # "compiling" => ~isCompiling

C30_AttemptEnds ==
    (pc = "compiling" /\ pc' # "compiling") =>
        /\ ~isCompiling'
        /\ Len(console') = Len(console) + 1
        /\ call' = call
        /\ outcome'.kind # "throw"
        /\ pc' \in {"idle", "register"}
        /\ compileTSONToJSON(call.filePath).kind = "throw" => LastFailed' /\ fs' = fs

C30_NotificationCompiles ==
    (pc = "enter" /\ pc' # "enter") =>
        /\ pc' = "compiling"
        /\ isCompiling'
        /\ attempts' = attempts + 1

C30_WatcherGuard ==
    /\ [](C30_FlagFalseOutsideAttempt)
    /\ [][C30_AttemptEnds]_vars
    /\ [][C30_NotificationCompiles]_vars

\* the first attempt failed, the file was changed, and the attempt the notification
\* started has compiled it
C30_Witness ==
    /\ call.fn = "watchTSONFile"
    /\ call.filePath = PathWatched
    /\ watching
    /\ pc = "idle"
    /\ ~isCompiling
    /\ attempts = 2
    /\ Len(console) = 2
    /\ StartsWith(console[1], <<"Failed to compile ">> \o PathWatched)
    /\ console[2] = <<"Compiled ">> \o PathWatched \o <<" -> ">> \o PathCompiled
    /\ fs[PathCompiled].data = <<"{", "\"", "a", "\"", ":", "1", "}">>

====
